---- MODULE Spec2Model ----
(***************************************************************************)
(* A model of the csaf-walker pipeline.                                    *)
(*                                                                         *)
(*   Spec       the orchestrator: Walker::walk and Walker::walk_parallel   *)
(*              (csaf/src/walker.rs) driving a Source and a visitor.       *)
(*   SpecIndex  Source::load_index of the HTTP source and of the File      *)
(*              source (csaf/src/source/http.rs, file.rs): the since       *)
(*              filter over a distribution's index.                        *)
(*   SpecJoin   join_url of HttpSource::load_index: a changes.csv path     *)
(*              joined to the directory distribution's base URL.           *)
(*   SpecAdvisory  HttpSource::load_advisory: the signature and digest     *)
(*              sub-fetches, the streamed body and its running digests.    *)
(*   SpecSync   the sync command's visitor chain (csaf-cli/src/cmd/sync.rs) *)
(*              Skip -> Retrieve -> Validate -> Store under Walker::walk.  *)
(*   SpecStore  StoreVisitor (csaf/src/visitors/store.rs) writing a tree,  *)
(*              and FileSource::load_metadata reading it back.             *)
(*   SpecPath   StoreVisitor::store deriving the path of a document from   *)
(*              its URL and the URL of its distribution.                   *)
(*   SpecDirWalk, SpecDirWalkLive  the walk thread of the File source and  *)
(*              the bounded channel to FileSource::load_index; the second  *)
(*              with fairness of the thread and of load_index.             *)
(*   SpecSince  two runs of load_index over an unchanged index, the second *)
(*              with a later watermark.                                    *)
(*   SpecRun    Sync::run: the since file read, the walk, the since file   *)
(*              rewritten.                                                 *)
(***************************************************************************)
EXTENDS Integers, Sequences, FiniteSets, TLC

(***************************************************************************)
(* Bounds of the model.                                                    *)
(***************************************************************************)
\* distributions in the provider metadata
MaxDists == 2
\* ROLIE feeds of one distribution
MaxFeeds == 2
\* distribution URLs (feeds and directories) of all distributions together
MaxContexts == 2
\* documents one load_index returns
MaxDocs == 2
\* documents of all indices together in one walk
MaxTotal == 3
\* distributions the distribution filter rejects (or it rejects all of them)
MaxRejected == 1
\* entries of one distribution's index, or of one distribution's directory
MaxEntries == 2
\* timestamps range over 1..MaxTime
MaxTime == 2
\* the limit argument of walk_parallel ranges over 0..MaxLimit
MaxLimit == 2
\* characters of a base URL's tail and of a changes.csv path
MaxPath == 3
\* characters of a fetched digest file
MaxLine == 2
\* chunks of a streamed document body
MaxChunks == 2
\* documents of one sync run
MaxSyncDocs == 3
\* distributions of the metadata that is stored
MaxStoreDists == 2
\* certificates of the keys that are stored
MaxCerts == 2
\* directories of the path of a distribution's URL and of an advisory's URL
MaxSegments == 2
\* entries the directory walk of one distribution yields
MaxWalk == 10

VARIABLES
    \* ---- inputs of one walk
    mode,                 \* "walk" or "walk_parallel"
    limit,                \* walk_parallel's limit argument
    metadata,             \* the distributions load_metadata yields when it succeeds
    distribution_filter,  \* Walker.distribution_filter
    \* ---- the walker
    pc,                   \* the walker's position
    distributions,        \* result of collect_distributions
    di,                   \* for distribution in distributions: how many are consumed
    index,                \* walk: the index being iterated
    ai,                   \* walk: how many advisories of index are consumed
    advisories,           \* walk_parallel: the collected advisories
    pulled,               \* walk_parallel: how many advisories the fan-out has pulled
    futures,              \* walk_parallel: state of each worker future, by position
    lockHolder,           \* walk_parallel: position of the worker holding the progress mutex, 0 = free
    lockQueue,            \* walk_parallel: workers waiting for the progress mutex, FIFO
    bars,                 \* the progress bars started so far
    result,               \* what the walk returned
    \* ---- observation of the calls made on the source and the visitor
    trace,                \* the calls on the source and the visitor, in the order they were started
    indexOf,              \* the index load_index returned for each distribution
    failed,               \* the calls that returned an error, in the order they returned
    \* ---- load_index of the sources (SpecIndex)
    isource,              \* "http" (HttpSource) or "file" (FileSource)
    ipc,                  \* "call" before load_index, "done" after
    context,              \* the DistributionContext load_index is called with
    entries,              \* what the distribution holds: changes.csv / feed entries, or directory entries
    since,                \* options.since
    loaded,               \* what load_index returned
    \* ---- join_url (SpecJoin)
    jpc,                  \* "call" before join_url, "done" after
    jbase,                \* the directory distribution's base URL
    jfile,                \* the file column of one changes.csv entry
    joined,               \* what join_url produced
    \* ---- load_advisory of the HTTP source (SpecAdvisory)
    apc,                  \* "call", "sub_fetch", "body_request", "body_stream", "done"
    discovered,           \* the DiscoveredAdvisory load_advisory is called with
    subs,                 \* the three futures of try_join!: signature, sha256, sha512
    sha256,               \* Option<RetrievingDigest<Sha256>>
    sha512,               \* Option<RetrievingDigest<Sha512>>
    data,                 \* the buffer of process()
    sent,                 \* the chunks the server has delivered, in order
    retrieved,            \* what load_advisory returned
    \* ---- the sync command's visitor chain (SpecSync)
    ypc,                  \* "walk" while the walk runs, "done" after
    ydocs,                \* what happens to each discovered document, in index order
    youtcomes,            \* what visit_advisory returned for each document visited
    yresult,              \* what the walk returned
    \* ---- StoreVisitor and FileSource::load_metadata (SpecStore)
    tpc,                  \* position of the store visitor
    tbase,                \* StoreVisitor.base as given: "real", or "link", a symlink to it
    tmetadata,            \* the ProviderMetadata handed to visit_context
    tcerts,               \* the fingerprints of the certificates handed to visit_context
    metafile,             \* metadata/provider-metadata.json
    keyfiles,             \* the files of metadata/keys, by name
    dirs,                 \* the distribution directories that exist
    created,              \* the directories prepare_distributions created, in order
    stored_certs,         \* how many certificates store_keys has stored
    tcontext,             \* what visit_context returned
    tloaded,              \* what FileSource::load_metadata returned
    tdoc,                 \* the advisory handed to store
    docfiles,             \* the files of the advisory's distribution directory, by name
    tstored,              \* what store returned
    \* ---- the path StoreVisitor::store hands to store_document (SpecPath)
    ppc,                  \* "call" before store derives the path, "done" after
    pcontext,             \* advisory.context.url()
    padvisory,            \* advisory.url
    pfile,                \* the path of the document: distribution_base.join(name)
    \* ---- the channel between the directory walk and FileSource::load_index (SpecDirWalk)
    dentries,             \* what the WalkDir iterator yields after filter_entry: "entry" or "error"
    thread,               \* the walk thread: "none", "next", "send", "finished" or "aborted"
    produced,             \* how many entries the thread has taken from the iterator
    channel,              \* the entries sent and not yet received, by position
    lpc,                  \* load_index: "call", "recv" or "done"
    received,             \* the entries load_index has received, by position
    lresult,              \* what load_index returned
    \* ---- Sync::run and its since file (SpecRun)
    fpc,                  \* Sync::run: "since_new", "walk" or "done"
    since_file,           \* the since file: absent, or the timestamp it holds
    fsince,               \* since.since, the watermark of the run
    fwrites,              \* how often the since file was written
    fresult,              \* what Sync::run returned: "none", "Ok" or "Err"
    \* ---- a second load_index over the same index (SpecSince)
    since_again,          \* options.since of the second run
    loaded_again          \* what the second load_index returned

wvars == <<mode, limit, metadata, distribution_filter, pc, distributions, di, index, ai,
           advisories, pulled, futures, lockHolder, lockQueue, bars, result,
           trace, indexOf, failed>>
ivars == <<isource, ipc, context, entries, since, loaded>>
jvars == <<jpc, jbase, jfile, joined>>
avars == <<apc, discovered, subs, sha256, sha512, data, sent, retrieved>>
vars == <<mode, limit, metadata, distribution_filter, pc, distributions, di, index, ai,
          advisories, pulled, futures, lockHolder, lockQueue, bars, result,
          trace, indexOf, failed, isource, ipc, context, entries, since, loaded,
          jpc, jbase, jfile, joined,
          apc, discovered, subs, sha256, sha512, data, sent, retrieved,
          ypc, ydocs, youtcomes, yresult,
          tpc, tbase, tmetadata, tcerts, metafile, keyfiles, dirs, created, stored_certs,
          tcontext, tloaded, tdoc, docfiles, tstored,
          ppc, pcontext, padvisory, pfile,
          dentries, thread, produced, channel, lpc, received, lresult,
          fpc, since_file, fsince, fwrites, fresult,
          since_again, loaded_again>>
yvars == <<ypc, ydocs, youtcomes, yresult>>
tvars == <<tpc, tbase, tmetadata, tcerts, metafile, keyfiles, dirs, created, stored_certs,
           tcontext, tloaded, tdoc, docfiles, tstored>>
pvars == <<ppc, pcontext, padvisory, pfile>>
cvars == <<dentries, thread, produced, channel, lpc, received, lresult>>
fvars == <<fpc, since_file, fsince, fwrites, fresult>>
rvars == <<since_again, loaded_again>>
\* what the actions of one part leave alone: the variables of the other parts
notWalker == <<ivars, jvars, avars, yvars, tvars, pvars, cvars, fvars, rvars>>
notIndex == <<wvars, jvars, avars, yvars, tvars, pvars, cvars, fvars, rvars>>
notJoin == <<wvars, ivars, avars, yvars, tvars, pvars, cvars, fvars, rvars>>
notAdvisory == <<wvars, ivars, jvars, yvars, tvars, pvars, cvars, fvars, rvars>>
notSync == <<wvars, ivars, jvars, avars, tvars, pvars, cvars, fvars, rvars>>
notStore == <<wvars, ivars, jvars, avars, yvars, pvars, cvars, fvars, rvars>>
notPath == <<wvars, ivars, jvars, avars, yvars, tvars, cvars, fvars, rvars>>
notDirWalk == <<wvars, ivars, jvars, avars, yvars, tvars, pvars, fvars, rvars>>
notRun == <<wvars, ivars, jvars, avars, yvars, tvars, pvars, cvars, rvars>>
notSyncRun == <<wvars, ivars, jvars, avars, tvars, pvars, cvars, rvars>>
notAgain == <<wvars, ivars, jvars, avars, yvars, tvars, pvars, cvars, fvars>>

(***************************************************************************)
(* Values.                                                                 *)
(***************************************************************************)
\* DistributionContext::Feed(url) / DistributionContext::Directory(url); the URL is
\* identified by the distribution's position and, for a feed, the feed's position.
Feed(d, n) == [dist |-> d, kind |-> "Feed", n |-> n]
Directory(d) == [dist |-> d, kind |-> "Directory", n |-> 0]
NoContext == [dist |-> 0, kind |-> "none", n |-> 0]

\* DiscoveredAdvisory: its context and its position in that context's index.
Advisory(c, k) == [context |-> c, k |-> k]
NoAdvisory == Advisory(NoContext, 0)

\* Distribution { rolie: feeds, directory_url }
Distribution == [feeds : 0..MaxFeeds, directory_url : BOOLEAN]

\* walker::Error and Ok(())
NotReturned == [kind |-> "none", at |-> NoAdvisory]
Ok == [kind |-> "Ok", at |-> NoAdvisory]
ErrorSource(c) == [kind |-> "Source", at |-> Advisory(c, 0)]
ErrorVisitor(a) == [kind |-> "Visitor", at |-> a]

\* one observed call
Call(op, c, k) == [op |-> op, context |-> c, k |-> k]
CallOf(op, a) == Call(op, a.context, a.k)

\* Option<SystemTime>
NoSince == [some |-> FALSE, t |-> 0]
SomeSince(t) == [some |-> TRUE, t |-> t]

\* Result<Vec<DiscoveredAdvisory>, Error> of load_index
NotLoaded == [kind |-> "none", docs |-> <<>>]
LoadedOk(docs) == [kind |-> "Ok", docs |-> docs]
LoadedErr(what) == [kind |-> what, docs |-> <<>>]

\* strings are sequences of characters: those over chars, lo..hi characters long
StringsOf(chars, lo, hi) == UNION {[1..k -> chars] : k \in lo..hi}

\* Option<String> / Option<Url>
NoText == [some |-> FALSE, v |-> <<>>]
SomeText(t) == [some |-> TRUE, v |-> t]

\* Result<Url, ParseError> of join_url, before it is called
NotJoined == [kind |-> "none", url |-> <<>>]

\* DiscoveredAdvisory { url, digest, signature } as load_advisory reads it
DiscoveredDoc(url, digest, signature) == [url |-> url, digest |-> digest, signature |-> signature]
NoDiscovered == DiscoveredDoc(<<>>, NoText, NoText)

\* the three futures handed to try_join!
SubNames == {"signature", "sha256", "sha512"}
\* one of them: not yet polled, fetching url, or done with out
SubPending == [st |-> "pending", url |-> <<>>, out |-> NoText]
SubFetching(url) == [st |-> "fetching", url |-> url, out |-> NoText]
SubDone(url, out) == [st |-> "done", url |-> url, out |-> out]
\* dropped by try_join! when another one failed
SubDropped(url) == [st |-> "dropped", url |-> url, out |-> NoText]
SubFailed(url) == [st |-> "failed", url |-> url, out |-> NoText]

\* Option<RetrievingDigest<D>> { expected, current }: the hasher state is the
\* bytes it has absorbed, in order
NoDigest == [some |-> FALSE, expected |-> <<>>, current |-> <<>>]
RetrievingDigest(expected) == [some |-> TRUE, expected |-> expected, current |-> <<>>]

\* Result<RetrievedAdvisory, Error> of load_advisory
NotRetrieved ==
    [kind |-> "none", data |-> <<>>, signature |-> NoText, sha256 |-> NoDigest, sha512 |-> NoDigest]
RetrievedErr(what) ==
    [kind |-> what, data |-> <<>>, signature |-> NoText, sha256 |-> NoDigest, sha512 |-> NoDigest]

\* Result<(), E> of a visitor's visit_advisory
VisitOk == [ok |-> TRUE, what |-> "none"]
VisitErr(what) == [ok |-> FALSE, what |-> what]

\* Result of the sync walk: Ok(()), or Error::Visitor raised at a document
SyncNotReturned == [kind |-> "none", what |-> "none", at |-> 0]
SyncOk == [kind |-> "Ok", what |-> "none", at |-> 0]
SyncErrorVisitor(what, at) == [kind |-> "Visitor", what |-> what, at |-> at]

SyncIdle ==
    /\ ypc = "idle" /\ ydocs = <<>> /\ youtcomes = <<>> /\ yresult = SyncNotReturned

\* a file: absent, or present with the content written so far
Absent == [exists |-> FALSE, data |-> <<>>]
File(content) == [exists |-> TRUE, data |-> content]

\* the fingerprints of the certificates, and the names of their key files:
\* <<stem, extension>> stands for "<stem>.<extension>"
Fingerprints == {"A", "B"}
KeyNames == {<<fp, "txt">> : fp \in Fingerprints}
\* the files of one advisory: the document, a temporary file, the siblings
DocNames == {"a.json", "a.json.tmp", "a.json.asc", "a.json.sha256", "a.json.sha512"}

\* Result<_, StoreError> of visit_context and of store
\* a URL of an advisory or of its distribution: its host and the path below it
\* a URL: its host, the directories of its path, and the file name after the last
\* slash ("" when the path ends in a slash)
Url(host, path, file) == [host |-> host, dirs |-> path, file |-> file]
NoUrl == Url("none", <<>>, "")
StoreNotReturned == [kind |-> "none", url |-> NoUrl]
StoreOk == [kind |-> "Ok", url |-> NoUrl]
StoreErrorIo == [kind |-> "Io", url |-> NoUrl]
StoreErrorSerializeKey == [kind |-> "SerializeKey", url |-> NoUrl]
StoreErrorFilename(url) == [kind |-> "Filename", url |-> url]

\* Result<ProviderMetadata, anyhow::Error> of FileSource::load_metadata
MetadataNotLoaded == [kind |-> "none", distributions |-> <<>>, keys |-> <<>>]
MetadataErr == [kind |-> "Err", distributions |-> <<>>, keys |-> <<>>]
MetadataOk(ds, ks) == [kind |-> "Ok", distributions |-> ds, keys |-> ks]

\* the advisory handed to store: its URL and which siblings were retrieved with it
NoDocument == [url |-> NoUrl, signature |-> FALSE, sha256 |-> FALSE, sha512 |-> FALSE]

StoreIdle ==
    /\ tpc = "idle" /\ tbase = "none" /\ tmetadata = <<>> /\ tcerts = <<>>
    /\ metafile = Absent
    /\ keyfiles = [n \in KeyNames |-> Absent]
    /\ dirs = {} /\ created = <<>> /\ stored_certs = 0
    /\ tcontext = StoreNotReturned
    /\ tloaded = MetadataNotLoaded
    /\ tdoc = NoDocument
    /\ docfiles = [n \in DocNames |-> Absent]
    /\ tstored = StoreNotReturned

\* Option<PathBuf>: the path handed to store_document, as its components
NoPath == [some |-> FALSE, v |-> <<>>]
SomePath(path) == [some |-> TRUE, v |-> path]

PathIdle ==
    /\ ppc = "idle" /\ pcontext = NoUrl /\ padvisory = NoUrl /\ pfile = NoPath

DirWalkIdle ==
    /\ dentries = <<>> /\ thread = "none" /\ produced = 0 /\ channel = <<>>
    /\ lpc = "idle" /\ received = <<>> /\ lresult = NotLoaded

RunIdle ==
    /\ fpc = "idle" /\ since_file = NoSince /\ fsince = NoSince /\ fwrites = 0
    /\ fresult = "none"

AgainIdle ==
    /\ since_again = NoSince /\ loaded_again = NotLoaded

JoinIdle ==
    /\ jpc = "idle" /\ jbase = <<>> /\ jfile = <<>> /\ joined = NotJoined

AdvisoryIdle ==
    /\ apc = "idle" /\ discovered = NoDiscovered
    /\ subs = [n \in SubNames |-> SubPending]
    /\ sha256 = NoDigest /\ sha512 = NoDigest
    /\ data = <<>> /\ sent = <<>>
    /\ retrieved = NotRetrieved

RECURSIVE SeqSum(_)
SeqSum(s) == IF s = <<>> THEN 0 ELSE Head(s) + SeqSum(Tail(s))

RECURSIVE Flatten(_)
Flatten(ss) == IF ss = <<>> THEN <<>> ELSE Head(ss) \o Flatten(Tail(ss))

Range(s) == {s[i] : i \in 1..Len(s)}

RECURSIVE SelectSeqBy(_, _)
SelectSeqBy(s, keep) ==
    IF s = <<>> THEN <<>>
    ELSE (IF Head(s) \in keep THEN <<Head(s)>> ELSE <<>>) \o SelectSeqBy(Tail(s), keep)

(***************************************************************************)
(* Walker::collect_distributions                                           *)
(***************************************************************************)
\* mutant: the directory comes before the feeds
ExpandDistribution_DirectoryFirst(d, dist) ==
    (IF dist.directory_url THEN <<Directory(d)>> ELSE <<>>)
        \o [j \in 1..dist.feeds |-> Feed(d, j)]

\* one distribution: every feed, chained with the directory URL when present
ExpandDistribution(d, dist) ==
    [j \in 1..dist.feeds |-> Feed(d, j)]
        \o (IF dist.directory_url THEN <<Directory(d)>> ELSE <<>>)

\* flat_map over the metadata's distributions
ExpandAll(meta) == Flatten([d \in 1..Len(meta) |-> ExpandDistribution(d, meta[d])])

\* mutant: the distribution filter is never consulted
PassesFilter_Ignored(c) == TRUE

\* the .filter(..) closure: without a filter every distribution passes
PassesFilter(c) ==
    IF distribution_filter.some THEN c \in distribution_filter.accept ELSE TRUE

collect_distributions(meta) ==
    SelectSeqBy(ExpandAll(meta), {c \in Range(ExpandAll(meta)) : PassesFilter(c)})

(***************************************************************************)
(* The source and the visitor seen from the walker: every call may succeed *)
(* or fail, and load_index may return any index of up to MaxDocs entries.  *)
(***************************************************************************)
IndexOfLen(c, n) == [k \in 1..n |-> Advisory(c, k)]

\* progress.start(size)
StartBar(size) == [size |-> size, ticks |-> 0, finished |-> 0]

TotalSize(bs) == SeqSum([i \in 1..Len(bs) |-> bs[i].size])

\* mutant: a tick advances the bar by two
Ticked_Twice(bs) == [bs EXCEPT ![Len(bs)].ticks = @ + 2]

\* Progress::tick on the bar started last
Ticked(bs) == [bs EXCEPT ![Len(bs)].ticks = @ + 1]
Finished(bs) == [bs EXCEPT ![Len(bs)].finished = @ + 1]

Return(r) ==
    /\ result' = r
    /\ pc' = "done"

\* mutant: a load_metadata error is dropped and the walk goes on
AfterLoadMetadata_Ignored(ok) == pc' = "visit_context" /\ UNCHANGED result

\* `.map_err(Error::Source)?` on load_metadata: an error returns at once
AfterLoadMetadata(ok) ==
    IF ok THEN pc' = "visit_context" /\ UNCHANGED result
          ELSE Return(ErrorSource(NoContext))

\* what a call adds to the failures
Failure(ok, call) == IF ok THEN failed ELSE Append(failed, call)

(***************************************************************************)
(* Walker::walk                                                            *)
(***************************************************************************)
\* self.source.load_metadata().await.map_err(Error::Source)?
Walk_LoadMetadata ==
    /\ mode = "walk" /\ pc = "load_metadata"
    /\ trace' = Append(trace, Call("load_metadata", NoContext, 0))
    /\ \E ok \in BOOLEAN :
          /\ AfterLoadMetadata(ok)
          /\ failed' = Failure(ok, Call("load_metadata", NoContext, 0))
    /\ UNCHANGED <<notWalker, mode, limit, metadata, distribution_filter, distributions, di, index, ai,
                   advisories, pulled, futures, lockHolder, lockQueue, bars, indexOf>>

\* the for loop's head: the next distribution, or Ok(()) after the last
WalkNext(ds, i) ==
    IF i < Len(ds) THEN pc' = "load_index" /\ UNCHANGED result
                   ELSE Return(Ok)

\* visitor.visit_context(..).await.map_err(Error::Visitor)?; collect_distributions
Walk_VisitContext ==
    /\ mode = "walk" /\ pc = "visit_context"
    /\ trace' = Append(trace, Call("visit_context", NoContext, 0))
    /\ \E ok \in BOOLEAN :
          /\ IF ok
             THEN /\ distributions' = collect_distributions(metadata)
                  /\ di' = 0
                  /\ WalkNext(distributions', 0)
             ELSE /\ Return(ErrorVisitor(NoAdvisory))
                  /\ UNCHANGED <<distributions, di>>
          /\ failed' = Failure(ok, Call("visit_context", NoContext, 0))
    /\ UNCHANGED <<notWalker, mode, limit, metadata, distribution_filter, index, ai,
                   advisories, pulled, futures, lockHolder, lockQueue, bars, indexOf>>

\* the for loop over index: the next advisory, or progress.finish()
WalkNextAdvisory(idx, k) ==
    pc' = IF k < Len(idx) THEN "visit_advisory" ELSE "finish"

\* self.source.load_index(distribution).await.map_err(Error::Source)?; progress.start
Walk_LoadIndex ==
    /\ mode = "walk" /\ pc = "load_index"
    /\ LET c == distributions[di + 1] IN
       /\ trace' = Append(trace, Call("load_index", c, 0))
       /\ di' = di + 1
       /\ \/ \E n \in 0..MaxDocs :
                /\ TotalSize(bars) + n <= MaxTotal
                /\ index' = IndexOfLen(c, n)
                /\ indexOf' = [indexOf EXCEPT ![c] = <<IndexOfLen(c, n)>>]
                /\ bars' = Append(bars, StartBar(n))
                /\ ai' = 0
                /\ WalkNextAdvisory(index', 0)
                /\ UNCHANGED <<result, failed>>
          \/ /\ Return(ErrorSource(c))
             /\ failed' = Append(failed, Call("load_index", c, 0))
             /\ UNCHANGED <<index, indexOf, bars, ai>>
    /\ UNCHANGED <<notWalker, mode, limit, metadata, distribution_filter, distributions,
                   advisories, pulled, futures, lockHolder, lockQueue>>

\* mutant: the index is iterated back to front
NextAdvisory_Reversed(idx, k) == idx[Len(idx) - k]

\* for advisory in index: the advisory the iterator yields after k were consumed
NextAdvisory(idx, k) == idx[k + 1]

\* mutant: a visit_advisory error is dropped and the loop goes on
AfterVisitAdvisory_Continue(ok, a) == pc' = "tick" /\ UNCHANGED result

\* `.map_err(Error::Visitor)?` on visit_advisory: an error returns at once
AfterVisitAdvisory(ok, a) ==
    IF ok THEN pc' = "tick" /\ UNCHANGED result
          ELSE Return(ErrorVisitor(a))

\* visitor.visit_advisory(&context, advisory).await.map_err(Error::Visitor)?
Walk_VisitAdvisory ==
    /\ mode = "walk" /\ pc = "visit_advisory"
    /\ LET a == NextAdvisory(index, ai) IN
       /\ trace' = Append(trace, CallOf("visit_advisory", a))
       /\ ai' = ai + 1
       /\ \E ok \in BOOLEAN :
             /\ AfterVisitAdvisory(ok, a)
             /\ failed' = Failure(ok, CallOf("visit_advisory", a))
    /\ UNCHANGED <<notWalker, mode, limit, metadata, distribution_filter, distributions, di, index,
                   advisories, pulled, futures, lockHolder, lockQueue, bars, indexOf>>

\* progress.tick().await
Walk_Tick ==
    /\ mode = "walk" /\ pc = "tick"
    /\ bars' = Ticked(bars)
    /\ WalkNextAdvisory(index, ai)
    /\ UNCHANGED <<notWalker, mode, limit, metadata, distribution_filter, distributions, di, index, ai,
                   advisories, pulled, futures, lockHolder, lockQueue, result, trace, indexOf, failed>>

\* progress.finish().await
Walk_Finish ==
    /\ mode = "walk" /\ pc = "finish"
    /\ bars' = Finished(bars)
    /\ WalkNext(distributions, di)
    /\ UNCHANGED <<notWalker, mode, limit, metadata, distribution_filter, distributions, di, index, ai,
                   advisories, pulled, futures, lockHolder, lockQueue, trace, indexOf, failed>>

(***************************************************************************)
(* Walker::walk_parallel                                                   *)
(***************************************************************************)
\* self.source.load_metadata().await.map_err(Error::Source)?
WalkParallel_LoadMetadata ==
    /\ mode = "walk_parallel" /\ pc = "load_metadata"
    /\ trace' = Append(trace, Call("load_metadata", NoContext, 0))
    /\ \E ok \in BOOLEAN :
          /\ AfterLoadMetadata(ok)
          /\ failed' = Failure(ok, Call("load_metadata", NoContext, 0))
    /\ UNCHANGED <<notWalker, mode, limit, metadata, distribution_filter, distributions, di, index, ai,
                   advisories, pulled, futures, lockHolder, lockQueue, bars, indexOf>>

\* mutant: the fan-out starts as soon as there is a document
CollectNext_Eager(ds, i, all) ==
    IF i < Len(ds) /\ all = <<>>
    THEN pc' = "collect" /\ UNCHANGED bars
    ELSE pc' = "fanout" /\ bars' = Append(bars, StartBar(Len(all)))

\* collect_advisories(..).try_collect(): the next load_index, or, after the last,
\* progress.start(size) and the fan-out
CollectNext(ds, i, all) ==
    IF i < Len(ds)
    THEN pc' = "collect" /\ UNCHANGED bars
    ELSE pc' = "fanout" /\ bars' = Append(bars, StartBar(Len(all)))

\* visitor.visit_context(..).await.map_err(Error::Visitor)?; collect_distributions
WalkParallel_VisitContext ==
    /\ mode = "walk_parallel" /\ pc = "visit_context"
    /\ trace' = Append(trace, Call("visit_context", NoContext, 0))
    /\ \E ok \in BOOLEAN :
          /\ IF ok
             THEN /\ distributions' = collect_distributions(metadata)
                  /\ di' = 0
                  /\ CollectNext(distributions', 0, advisories)
                  /\ UNCHANGED result
             ELSE /\ Return(ErrorVisitor(NoAdvisory))
                  /\ UNCHANGED <<distributions, di, bars>>
          /\ failed' = Failure(ok, Call("visit_context", NoContext, 0))
    /\ UNCHANGED <<notWalker, mode, limit, metadata, distribution_filter, index, ai,
                   advisories, pulled, futures, lockHolder, lockQueue, indexOf>>

\* collect_sources: source.load_index(discover_context).await.map_err(Error::Source)?,
\* one distribution after the other; try_flatten appends the index
WalkParallel_LoadIndex ==
    /\ mode = "walk_parallel" /\ pc = "collect"
    /\ LET c == distributions[di + 1] IN
       /\ trace' = Append(trace, Call("load_index", c, 0))
       /\ di' = di + 1
       /\ \/ \E n \in 0..MaxDocs :
                /\ Len(advisories) + n <= MaxTotal
                /\ advisories' = advisories \o IndexOfLen(c, n)
                /\ indexOf' = [indexOf EXCEPT ![c] = <<IndexOfLen(c, n)>>]
                /\ CollectNext(distributions, di', advisories')
                /\ UNCHANGED <<result, failed>>
          \/ /\ Return(ErrorSource(c))
             /\ failed' = Append(failed, Call("load_index", c, 0))
             /\ UNCHANGED <<advisories, indexOf, bars>>
    /\ UNCHANGED <<notWalker, mode, limit, metadata, distribution_filter, distributions, index, ai,
                   pulled, futures, lockHolder, lockQueue>>

\* the futures try_for_each_concurrent holds: started and not yet completed
InFlight(fs) == {w \in 1..Len(fs) : fs[w].state \in {"visiting", "locking", "ticking"}}

\* the visit_advisory calls that are running
Visiting(fs) == {w \in 1..Len(fs) : fs[w].state = "visiting"}

\* mutant: a limit of zero admits no future at all
HasRoom_ZeroIsNone(lim, fs) == Cardinality(InFlight(fs)) < lim

\* mutant: one future too many is admitted
HasRoom_OffByOne(lim, fs) == lim = 0 \/ Cardinality(InFlight(fs)) <= lim

\* try_for_each_concurrent(limit, ..): a limit of zero is no limit
HasRoom(lim, fs) == lim = 0 \/ Cardinality(InFlight(fs)) < lim

\* the fan-out pulls the next advisory from the stream and its future starts
\* visitor.visit_advisory(&context, advisory.clone())
WalkParallel_Start ==
    /\ mode = "walk_parallel" /\ pc = "fanout"
    /\ pulled < Len(advisories)
    /\ HasRoom(limit, futures)
    /\ pulled' = pulled + 1
    /\ futures' = Append(futures, [state |-> "visiting", ok |-> TRUE])
    /\ trace' = Append(trace, CallOf("visit_advisory", advisories[pulled']))
    /\ UNCHANGED <<notWalker, mode, limit, metadata, distribution_filter, distributions, di, index, ai,
                   advisories, lockHolder, lockQueue, bars, result, indexOf, failed, pc>>

\* mutant: an unfair mutex that serves the latest waiter first
Enqueue_Lifo(q, w) == <<w>> \o q

\* progress.lock().await on a held mutex: the worker waits behind the earlier ones
Enqueue(q, w) == Append(q, w)

\* visit_advisory of worker w returns; the worker asks for the progress mutex
\* (tokio's Mutex is fair: a free mutex is taken at once, a held one queues the worker)
WalkParallel_VisitReturn(w) ==
    /\ mode = "walk_parallel" /\ pc = "fanout"
    /\ w \in Visiting(futures)
    /\ \E ok \in BOOLEAN :
          /\ failed' = Failure(ok, CallOf("visit_advisory", advisories[w]))
          /\ IF lockHolder = 0
             THEN /\ lockHolder' = w
                  /\ futures' = [futures EXCEPT ![w] = [state |-> "ticking", ok |-> ok]]
                  /\ UNCHANGED lockQueue
             ELSE /\ lockQueue' = Enqueue(lockQueue, w)
                  /\ futures' = [futures EXCEPT ![w] = [state |-> "locking", ok |-> ok]]
                  /\ UNCHANGED lockHolder
    /\ UNCHANGED <<notWalker, mode, limit, metadata, distribution_filter, distributions, di, index, ai,
                   advisories, pulled, bars, result, indexOf, trace, pc>>

\* dropping the mutex guard hands the mutex to the longest waiting worker
Unlocked(fs, q) ==
    IF q = <<>> THEN fs ELSE [fs EXCEPT ![Head(q)].state = "ticking"]

\* mutant: the workers are detached tasks that outlive the fan-out
Dropped_KeepRunning(fs) == fs

\* an error of one future drops the futures that are still in flight
Dropped(fs) ==
    [w \in 1..Len(fs) |->
        IF w \in Visiting(fs) THEN [fs[w] EXCEPT !.state = "dropped_visiting"]
        ELSE IF w \in InFlight(fs) THEN [fs[w] EXCEPT !.state = "dropped"]
        ELSE fs[w]]

\* worker w, holding the mutex, completes progress.tick(), drops the guard and returns
\* its result; an Err ends try_for_each_concurrent, and `?` returns it
WalkParallel_Tick(w) ==
    /\ mode = "walk_parallel" /\ pc = "fanout"
    /\ w \in 1..Len(futures) /\ futures[w].state = "ticking" /\ lockHolder = w
    /\ bars' = Ticked(bars)
    /\ lockHolder' = IF lockQueue = <<>> THEN 0 ELSE Head(lockQueue)
    /\ lockQueue' = IF lockQueue = <<>> THEN <<>> ELSE Tail(lockQueue)
    /\ LET fs == Unlocked([futures EXCEPT ![w].state = "done"], lockQueue) IN
       IF futures[w].ok
       THEN futures' = fs /\ UNCHANGED <<result, pc>>
       ELSE futures' = Dropped(fs) /\ Return(ErrorVisitor(advisories[w]))
    /\ UNCHANGED <<notWalker, mode, limit, metadata, distribution_filter, distributions, di, index, ai,
                   advisories, pulled, trace, indexOf, failed>>

\* mutant: completion is only noticed when a future completes
FanOutComplete_NeedsFuture(all, n, fs) == n = Len(all) /\ InFlight(fs) = {} /\ fs # <<>>

\* try_for_each_concurrent is Ok once the stream is exhausted and no future is left
FanOutComplete(all, n, fs) == n = Len(all) /\ InFlight(fs) = {}

\* mutant: every worker holds a clone of the Arc
ProgressStrongCount_Cloned == 1 + 1

\* strong count of the Arc around the progress bar: the workers borrow it, none clones it
ProgressStrongCount == 1

\* the stream is exhausted and every future completed: try_for_each_concurrent is Ok;
\* Arc::try_unwrap(progress), progress.finish().await, Ok(())
WalkParallel_Finish ==
    /\ mode = "walk_parallel" /\ pc = "fanout"
    /\ FanOutComplete(advisories, pulled, futures)
    /\ bars' = IF ProgressStrongCount = 1 THEN Finished(bars) ELSE bars
    /\ Return(Ok)
    /\ UNCHANGED <<notWalker, mode, limit, metadata, distribution_filter, distributions, di, index, ai,
                   advisories, pulled, futures, lockHolder, lockQueue, trace, indexOf, failed>>

(***************************************************************************)
(* Specification of the walker.                                            *)
(***************************************************************************)
Metadatas ==
    {m \in UNION {[1..n -> Distribution] : n \in 0..MaxDists} : Len(ExpandAll(m)) <= MaxContexts}

\* no filter, a filter that rejects up to MaxRejected distributions, one that rejects all
Filters(meta) ==
    LET all == Range(ExpandAll(meta)) IN
    {[some |-> FALSE, accept |-> {}], [some |-> TRUE, accept |-> {}]}
        \cup {[some |-> TRUE, accept |-> all \ r] :
                 r \in {x \in SUBSET all : Cardinality(x) <= MaxRejected}}

Contexts ==
    {Feed(d, n) : d \in 1..MaxDists, n \in 1..MaxFeeds} \cup {Directory(d) : d \in 1..MaxDists}

IndexIdle ==
    /\ isource = "none" /\ ipc = "idle" /\ context = NoContext /\ entries = <<>>
    /\ since = NoSince /\ loaded = NotLoaded

Init ==
    /\ mode \in {"walk", "walk_parallel"}
    /\ limit \in (IF mode = "walk" THEN {0} ELSE 0..MaxLimit)
    /\ metadata \in Metadatas
    /\ distribution_filter \in Filters(metadata)
    /\ pc = "load_metadata"
    /\ distributions = <<>> /\ di = 0 /\ index = <<>> /\ ai = 0
    /\ advisories = <<>> /\ pulled = 0 /\ futures = <<>>
    /\ lockHolder = 0 /\ lockQueue = <<>>
    /\ bars = <<>>
    /\ result = NotReturned
    /\ trace = <<>>
    /\ indexOf = [c \in Contexts |-> <<>>]
    /\ failed = <<>>
    /\ IndexIdle
    /\ AgainIdle
    /\ RunIdle
    /\ DirWalkIdle
    /\ PathIdle
    /\ JoinIdle
    /\ AdvisoryIdle
    /\ SyncIdle
    /\ StoreIdle

Next ==
    \/ Walk_LoadMetadata
    \/ Walk_VisitContext
    \/ Walk_LoadIndex
    \/ Walk_VisitAdvisory
    \/ Walk_Tick
    \/ Walk_Finish
    \/ WalkParallel_LoadMetadata
    \/ WalkParallel_VisitContext
    \/ WalkParallel_LoadIndex
    \/ WalkParallel_Start
    \/ \E w \in 1..Len(futures) : WalkParallel_VisitReturn(w)
    \/ \E w \in 1..Len(futures) : WalkParallel_Tick(w)
    \/ WalkParallel_Finish

Spec == Init /\ [][Next]_vars

(***************************************************************************)
(* walk_parallel called with limit = 0.  The executor keeps polling the    *)
(* futures that are ready and every call of the source and of the visitor  *)
(* returns, so a step that stays possible is eventually taken.  The        *)
(* distributions have a directory URL and no feed: the fan-out treats the  *)
(* documents of a feed and those of a directory alike.                     *)
(***************************************************************************)
InitUnbounded ==
    /\ Init
    /\ mode = "walk_parallel"
    /\ limit = 0
    /\ \A i \in 1..Len(metadata) : metadata[i].feeds = 0

NextParallel ==
    \/ WalkParallel_LoadMetadata
    \/ WalkParallel_VisitContext
    \/ WalkParallel_LoadIndex
    \/ WalkParallel_Start
    \/ \E w \in 1..Len(futures) : WalkParallel_VisitReturn(w)
    \/ \E w \in 1..Len(futures) : WalkParallel_Tick(w)
    \/ WalkParallel_Finish

SpecUnbounded == InitUnbounded /\ [][NextParallel]_vars /\ WF_vars(NextParallel)

(***************************************************************************)
(* Source::load_index of the HTTP source (csaf/src/source/http.rs).        *)
(*                                                                         *)
(* An entry of changes.csv or of a ROLIE feed is                           *)
(*   [file, digest, signature, timestamp]                                  *)
(* where file is "ok" or "bad" (does the URL parse), digest and signature  *)
(* are "none", "ok" or "bad"; a changes.csv entry has neither digest nor   *)
(* signature.  A DiscoveredAdvisory is identified by the position of its   *)
(* entry.                                                                  *)
(***************************************************************************)
Discovered(pos, modified, digest, signature) ==
    [url |-> pos, modified |-> modified, digest |-> digest, signature |-> signature]

ParsedOk(doc) == [ok |-> TRUE, doc |-> doc]
ParsedErr == [ok |-> FALSE, doc |-> Discovered(0, 0, "none", "none")]

\* the .map(..) closures: Url::parse / join_url of every URL of the entry, `?` on each
HttpDiscover(kind, e, pos) ==
    IF kind = "Directory"
    THEN IF e.file = "bad" THEN ParsedErr
         ELSE ParsedOk(Discovered(pos, e.timestamp, "none", "none"))
    ELSE IF e.file = "bad" \/ e.digest = "bad" \/ e.signature = "bad" THEN ParsedErr
         ELSE ParsedOk(Discovered(pos, e.timestamp,
                                  IF e.digest = "none" THEN "none" ELSE "some",
                                  IF e.signature = "none" THEN "none" ELSE "some"))

\* mutant: an advisory modified exactly at the watermark is dropped
since_filter_Strict(r, snc) ==
    IF r.ok /\ snc.some THEN r.doc.modified > snc.t ELSE TRUE

\* mutant: the advisories modified after the watermark are dropped
since_filter_Before(r, snc) ==
    IF r.ok /\ snc.some THEN r.doc.modified <= snc.t ELSE TRUE

\* mutant: an entry whose URL did not parse is filtered out
since_filter_DropsErr(r, snc) ==
    r.ok /\ (snc.some => r.doc.modified >= snc.t)

\* since_filter: (Ok(advisory), Some(since)) => modified >= since, _ => true
since_filter(r, snc) ==
    IF r.ok /\ snc.some THEN r.doc.modified >= snc.t ELSE TRUE

RECURSIVE FilterSeq(_, _)
FilterSeq(rs, snc) ==
    IF rs = <<>> THEN <<>>
    ELSE (IF since_filter(Head(rs), snc) THEN <<Head(rs)>> ELSE <<>>)
             \o FilterSeq(Tail(rs), snc)

\* .collect::<Result<_, _>>()?: the first Err, or every Ok
CollectResults(rs) ==
    IF \E i \in 1..Len(rs) : ~rs[i].ok THEN LoadedErr("Url")
    ELSE LoadedOk([i \in 1..Len(rs) |-> rs[i].doc])

\* HttpSource::load_index after the index document was retrieved
HttpLoadIndex(kind, es, snc) ==
    CollectResults(FilterSeq([i \in 1..Len(es) |-> HttpDiscover(kind, es[i], i)], snc))

\* ChangeSource::retrieve / RolieSource::retrieve may fail (`?`), then the entries
\* are mapped, filtered and collected
Http_LoadIndex ==
    /\ isource = "http" /\ ipc = "call"
    /\ \E fetched \in BOOLEAN :
          loaded' = IF fetched THEN HttpLoadIndex(context.kind, entries, since)
                    ELSE LoadedErr("Fetcher")
    /\ ipc' = "done"
    /\ UNCHANGED <<notIndex, isource, context, entries, since>>

(***************************************************************************)
(* Source::load_index of the File source (csaf/src/source/file.rs).        *)
(*                                                                         *)
(* A directory entry WalkDir yields is [kind, json, mtime, stat]: kind is  *)
(* "error" (a walkdir error), "dir", "file" (a regular file) or "symlink"  *)
(* (a symbolic link to a regular file); json says whether the name ends in *)
(* .json; stat whether path.metadata() succeeds.                           *)
(***************************************************************************)
\* the filter_entry closure of the walk thread: a file that does not end in .json is skipped
FilterEntry(e) ==
    e.kind = "error" \/ ~(e.kind = "file") \/ e.json

\* path.is_file() follows symbolic links
PathIsFile(e) == e.kind \in {"file", "symlink"}

\* mutant: a file modified exactly at the watermark is skipped
SkippedBySince_Strict(e, snc) == snc.some /\ e.mtime <= snc.t

\* if let Some(since) = self.options.since { if modified < since { continue } }
SkippedBySince(e, snc) == snc.some /\ e.mtime < snc.t

\* the body of `while let Some(entry) = entries.recv().await`, on the result so far
FileStep(acc, e, pos, snc) ==
    IF acc.kind # "Ok" THEN acc
    ELSE IF e.kind = "error" THEN LoadedErr("Walkdir")
    ELSE IF ~PathIsFile(e) THEN acc
    ELSE IF ~e.json THEN acc
    ELSE IF snc.some /\ ~e.stat THEN LoadedErr("Io")
    ELSE IF SkippedBySince(e, snc) THEN acc
    ELSE IF ~e.stat THEN LoadedErr("Io")
    ELSE LoadedOk(Append(acc.docs, Discovered(pos, e.mtime, "none", "none")))

RECURSIVE FileLoop(_, _, _, _)
FileLoop(acc, es, pos, snc) ==
    IF pos > Len(es) THEN acc
    ELSE FileLoop(IF FilterEntry(es[pos]) THEN FileStep(acc, es[pos], pos, snc) ELSE acc,
                  es, pos + 1, snc)

\* FileSource::load_index over the entries the walk thread sends
FileLoadIndex(es, snc) == FileLoop(LoadedOk(<<>>), es, 1, snc)

\* walk_distribution fails when the URL is no file path (`?`), else the loop runs
File_LoadIndex ==
    /\ isource = "file" /\ ipc = "call"
    /\ \E path \in BOOLEAN :
          loaded' = IF path THEN FileLoadIndex(entries, since) ELSE LoadedErr("Path")
    /\ ipc' = "done"
    /\ UNCHANGED <<notIndex, isource, context, entries, since>>

(***************************************************************************)
(* Specification of load_index.                                            *)
(***************************************************************************)
Times == 1..MaxTime

Sinces == {NoSince} \cup {SomeSince(t) : t \in Times}

ChangeEntries == [file : {"ok", "bad"}, digest : {"none"}, signature : {"none"}, timestamp : Times]

FeedEntries ==
    [file : {"ok", "bad"}, digest : {"none", "ok", "bad"}, signature : {"none", "ok", "bad"},
     timestamp : Times]

DirEntries == [kind : {"error", "dir", "file", "symlink"}, json : BOOLEAN, mtime : Times,
               stat : BOOLEAN]

SeqsUpTo(S, n) == UNION {[1..k -> S] : k \in 0..n}

WalkerIdle ==
    /\ mode = "none" /\ limit = 0 /\ metadata = <<>>
    /\ distribution_filter = [some |-> FALSE, accept |-> {}]
    /\ pc = "idle"
    /\ distributions = <<>> /\ di = 0 /\ index = <<>> /\ ai = 0
    /\ advisories = <<>> /\ pulled = 0 /\ futures = <<>>
    /\ lockHolder = 0 /\ lockQueue = <<>>
    /\ bars = <<>>
    /\ result = NotReturned
    /\ trace = <<>>
    /\ indexOf = [c \in Contexts |-> <<>>]
    /\ failed = <<>>

InitIndex ==
    /\ WalkerIdle
    /\ AgainIdle
    /\ RunIdle
    /\ DirWalkIdle
    /\ PathIdle
    /\ StoreIdle
    /\ SyncIdle
    /\ JoinIdle
    /\ AdvisoryIdle
    /\ isource \in {"http", "file"}
    /\ ipc = "call"
    /\ context \in {Feed(1, 1), Directory(1)}
    /\ entries \in
          IF isource = "file" THEN SeqsUpTo(DirEntries, MaxEntries)
          ELSE IF context.kind = "Directory" THEN SeqsUpTo(ChangeEntries, MaxEntries)
          ELSE SeqsUpTo(FeedEntries, MaxEntries)
    /\ since \in Sinces
    /\ loaded = NotLoaded

NextIndex ==
    \/ Http_LoadIndex
    \/ File_LoadIndex

SpecIndex == InitIndex /\ [][NextIndex]_vars

(***************************************************************************)
(* Two runs of load_index over the same, unchanged index: the first with   *)
(* the watermark since; when it has returned its documents, the second     *)
(* with a watermark since_again that is not earlier.                       *)
(***************************************************************************)
\* the watermarks of the second run
LaterSinces == {SomeSince(t) : t \in since.t..MaxTime}

\* HttpSource::load_index of the second run
Http_LoadIndexAgain ==
    /\ isource = "http" /\ ipc = "done" /\ loaded.kind = "Ok" /\ loaded_again = NotLoaded
    /\ \E later \in LaterSinces, fetched \in BOOLEAN :
          /\ since_again' = later
          /\ loaded_again' = IF fetched THEN HttpLoadIndex(context.kind, entries, later)
                             ELSE LoadedErr("Fetcher")
    /\ UNCHANGED notAgain

\* FileSource::load_index of the second run
File_LoadIndexAgain ==
    /\ isource = "file" /\ ipc = "done" /\ loaded.kind = "Ok" /\ loaded_again = NotLoaded
    /\ \E later \in LaterSinces, path \in BOOLEAN :
          /\ since_again' = later
          /\ loaded_again' = IF path THEN FileLoadIndex(entries, later)
                             ELSE LoadedErr("Path")
    /\ UNCHANGED notAgain

InitSince ==
    /\ WalkerIdle
    /\ RunIdle
    /\ DirWalkIdle
    /\ PathIdle
    /\ StoreIdle
    /\ SyncIdle
    /\ JoinIdle
    /\ AdvisoryIdle
    /\ isource \in {"http", "file"}
    /\ ipc = "call"
    /\ context \in {Feed(1, 1), Directory(1)}
    /\ entries \in
          IF isource = "file" THEN SeqsUpTo(DirEntries, MaxEntries)
          ELSE IF context.kind = "Directory" THEN SeqsUpTo(ChangeEntries, MaxEntries)
          ELSE SeqsUpTo(FeedEntries, MaxEntries)
    /\ since \in {SomeSince(t) : t \in Times}
    /\ since_again = NoSince
    /\ loaded = NotLoaded
    /\ loaded_again = NotLoaded

NextSince ==
    \/ Http_LoadIndex
    \/ File_LoadIndex
    \/ Http_LoadIndexAgain
    \/ File_LoadIndexAgain

SpecSince == InitSince /\ [][NextSince]_vars

(***************************************************************************)
(* join_url of HttpSource::load_index (csaf/src/source/http.rs): the file  *)
(* column of a changes.csv entry joined to the base URL of a directory     *)
(* distribution.  A string is a sequence of characters; the base URL is    *)
(* given by the characters its text ends with.  Url::parse keeps the       *)
(* characters used here ('/' and a letter) as they are.                    *)
(***************************************************************************)
PathChars == {"/", "a"}

ends_with(s, c) == s # <<>> /\ s[Len(s)] = c
starts_with(s, c) == s # <<>> /\ s[1] = c

\* let has_slash = base.to_string().ends_with('/')
has_slash(base) == ends_with(base, "/")

JoinedOk(url) == [kind |-> "Ok", url |-> url]

\* if has_slash && s.ends_with('/') { s = &s[1..] }  Url::parse(&format!("{base}{s}"))
join_url(base, s) ==
    JoinedOk(base \o (IF has_slash(base) /\ ends_with(s, "/") THEN Tail(s) ELSE s))

\* let url = join_url(&file)
Join_Url ==
    /\ jpc = "call"
    /\ joined' = join_url(jbase, jfile)
    /\ jpc' = "done"
    /\ UNCHANGED <<notJoin, jbase, jfile>>

InitJoin ==
    /\ WalkerIdle
    /\ AgainIdle
    /\ RunIdle
    /\ DirWalkIdle
    /\ PathIdle
    /\ StoreIdle
    /\ SyncIdle
    /\ IndexIdle
    /\ AdvisoryIdle
    /\ jpc = "call"
    /\ jbase \in StringsOf(PathChars, 1, MaxPath)
    /\ jfile \in StringsOf(PathChars, 0, MaxPath)
    /\ joined = NotJoined

NextJoin == Join_Url

SpecJoin == InitJoin /\ [][NextJoin]_vars

(***************************************************************************)
(* HttpSource::load_advisory (csaf/src/source/http.rs).                    *)
(*                                                                         *)
(* A URL is the sequence of its parts, the last one being its suffix:      *)
(* format!("{url}.sha256") appends the part ".sha256".  The text of a      *)
(* fetched file is a sequence of characters.  A hasher is the sequence of  *)
(* the bytes it has absorbed, and the digest it yields stands for the      *)
(* digest of exactly that sequence.                                        *)
(***************************************************************************)
DocumentUrl == <<"doc", ".json">>
\* the digest URL a feed entry may carry
DigestUrls == {<<"doc", ".json", ".sha256">>, <<"doc", ".json", ".sha512">>, <<"doc", ".json", ".md5">>}
\* the signature URL a feed entry may carry
SignatureUrls == {<<"sig", ".asc">>}

\* characters of a digest file: a digit, a blank, a tab
DigestChars == {"a", " ", "\t"}
DigestTexts == StringsOf(DigestChars, 0, MaxLine)
SignatureTexts == {<<"s">>}
\* the chunks a response body is made of
Chunks == {<<0>>, <<1>>, <<0, 1>>}

\* mutant: the signature URL is always guessed
SignatureTarget_Guess(d) == d.url \o <<".asc">>

\* the first future: the discovered signature URL, otherwise a guess
SignatureTarget(d) == IF d.signature.some THEN d.signature.v ELSE d.url \o <<".asc">>

\* mutant: a digest URL with another suffix falls back to the sibling URL
DigestFuture_Fallback(d, suffix) ==
    IF d.digest.some /\ ends_with(d.digest.v, suffix) THEN SubFetching(d.digest.v)
    ELSE SubFetching(d.url \o <<suffix>>)

\* the second and third future, on their first poll:
\*   Some(digest) if digest.as_str().ends_with(suffix) => fetch(digest)
\*   Some(_) => Ok(None)
\*   None => fetch(format!("{url}{suffix}"))
DigestFuture(d, suffix) ==
    IF d.digest.some
    THEN IF ends_with(d.digest.v, suffix) THEN SubFetching(d.digest.v)
         ELSE SubDone(<<>>, NoText)
    ELSE SubFetching(d.url \o <<suffix>>)

\* load_advisory is called: try_join! polls its three futures, each of which
\* starts its fetch or is done at once
LoadAdvisory_Call ==
    /\ apc = "call"
    /\ subs' = [n \in SubNames |->
                  IF n = "signature" THEN SubFetching(SignatureTarget(discovered))
                  ELSE IF n = "sha256" THEN DigestFuture(discovered, ".sha256")
                  ELSE DigestFuture(discovered, ".sha512")]
    /\ apc' = "sub_fetch"
    /\ UNCHANGED <<notAdvisory, discovered, sha256, sha512, data, sent, retrieved>>

RECURSIVE TakeUntil(_, _)
TakeUntil(s, c) ==
    IF s = <<>> \/ Head(s) = c THEN <<>> ELSE <<Head(s)>> \o TakeUntil(Tail(s), c)

\* expected.split(' ').next(): the text before the first blank
first_word(text) == TakeUntil(text, " ")

\* .and_then(|expected| ..).map(|expected| RetrievingDigest { expected, current: D::new() })
retrieving_digest(out) == IF out.some THEN RetrievingDigest(first_word(out.v)) ELSE NoDigest

\* mutant: the body is requested as soon as one future is done
JoinReady_Any(sb) == \E n \in SubNames : sb[n].st = "done"

\* mutant: try_join! waits for three texts, an absent one holds it up
JoinReady_AllPresent(sb) == \A n \in SubNames : sb[n].st = "done" /\ sb[n].out.some

\* try_join! is ready once its three futures are
JoinReady(sb) == \A n \in SubNames : sb[n].st = "done"

\* what a fetch may yield: Ok(Some(text)), Ok(None) for a 404, or an error
FetchOutcomes(n) ==
    {SomeText(t) : t \in (IF n = "signature" THEN SignatureTexts ELSE DigestTexts)}
        \cup {NoText}

\* the fetch of one future completes; when it fails, try_join! returns the error and
\* drops the other futures (`?`); when it was the last one, the expected digests are
\* taken from the digest texts and the body is requested (fetch_processed)
LoadAdvisory_SubFetched(n) ==
    /\ apc = "sub_fetch"
    /\ subs[n].st = "fetching"
    /\ \/ /\ subs' = [m \in SubNames |->
                        IF m = n THEN SubFailed(subs[m].url)
                        ELSE IF subs[m].st = "fetching" THEN SubDropped(subs[m].url)
                        ELSE subs[m]]
          /\ retrieved' = RetrievedErr("Fetcher")
          /\ apc' = "done"
          /\ UNCHANGED <<sha256, sha512>>
       \/ \E out \in FetchOutcomes(n) :
             LET sb == [subs EXCEPT ![n] = SubDone(subs[n].url, out)] IN
             /\ subs' = sb
             /\ IF JoinReady(sb)
                THEN /\ sha256' = retrieving_digest(sb["sha256"].out)
                     /\ sha512' = retrieving_digest(sb["sha512"].out)
                     /\ apc' = "body_request"
                ELSE UNCHANGED <<sha256, sha512, apc>>
             /\ UNCHANGED retrieved
    /\ UNCHANGED <<notAdvisory, discovered, data, sent>>

\* process(): response.error_for_status()?, or the request itself failed
LoadAdvisory_BodyResponse ==
    /\ apc = "body_request"
    /\ \E ok \in BOOLEAN :
          IF ok THEN apc' = "body_stream" /\ UNCHANGED retrieved
          ELSE apc' = "done" /\ retrieved' = RetrievedErr("Fetcher")
    /\ UNCHANGED <<notAdvisory, discovered, subs, sha256, sha512, data, sent>>

\* mutant: the hasher starts afresh with every chunk
update_Restart(d, chunk) == IF d.some THEN [d EXCEPT !.current = chunk] ELSE d

\* if let Some(d) = &mut shaN { d.update(&chunk) }
update(d, chunk) == IF d.some THEN [d EXCEPT !.current = @ \o chunk] ELSE d

\* one round of `while let Some(chunk) = response.chunk().await?`
LoadAdvisory_BodyChunk ==
    /\ apc = "body_stream"
    /\ Len(sent) < MaxChunks
    /\ \/ /\ apc' = "done" /\ retrieved' = RetrievedErr("Fetcher")
          /\ UNCHANGED <<sha256, sha512, data, sent>>
       \/ \E chunk \in Chunks :
             /\ sha256' = update(sha256, chunk)
             /\ sha512' = update(sha512, chunk)
             /\ data' = data \o chunk
             /\ sent' = Append(sent, chunk)
             /\ UNCHANGED <<apc, retrieved>>
    /\ UNCHANGED <<notAdvisory, discovered, subs>>

\* mutant: the fetched signature is not handed on
into_retrieved_NoSignature(dat, h256, h512, signature) ==
    [kind |-> "Ok", data |-> dat, signature |-> NoText, sha256 |-> h256, sha512 |-> h512]

\* FetchedRetrievedAdvisory::into_retrieved
into_retrieved(dat, h256, h512, signature) ==
    [kind |-> "Ok", data |-> dat, signature |-> signature, sha256 |-> h256, sha512 |-> h512]

\* response.chunk() yields None: the body is complete, load_advisory returns
LoadAdvisory_BodyEnd ==
    /\ apc = "body_stream"
    /\ retrieved' = into_retrieved(data, sha256, sha512, subs["signature"].out)
    /\ apc' = "done"
    /\ UNCHANGED <<notAdvisory, discovered, subs, sha256, sha512, data, sent>>

InitAdvisory ==
    /\ WalkerIdle
    /\ AgainIdle
    /\ RunIdle
    /\ DirWalkIdle
    /\ PathIdle
    /\ StoreIdle
    /\ SyncIdle
    /\ IndexIdle
    /\ JoinIdle
    /\ apc = "call"
    /\ discovered \in {DiscoveredDoc(DocumentUrl, dg, sg) :
                          dg \in {NoText} \cup {SomeText(u) : u \in DigestUrls},
                          sg \in {NoText} \cup {SomeText(u) : u \in SignatureUrls}}
    /\ subs = [n \in SubNames |-> SubPending]
    /\ sha256 = NoDigest /\ sha512 = NoDigest
    /\ data = <<>> /\ sent = <<>>
    /\ retrieved = NotRetrieved

NextLoadAdvisory ==
    \/ LoadAdvisory_Call
    \/ \E n \in SubNames : LoadAdvisory_SubFetched(n)
    \/ LoadAdvisory_BodyResponse
    \/ LoadAdvisory_BodyChunk
    \/ LoadAdvisory_BodyEnd

SpecAdvisory == InitAdvisory /\ [][NextLoadAdvisory]_vars

(***************************************************************************)
(* The sync command (csaf/csaf-cli/src/cmd/sync.rs): Walker::walk drives   *)
(*   SkipExistingVisitor -> RetrievingVisitor -> ValidationVisitor ->      *)
(*   StoreVisitor.                                                         *)
(* What happens to a discovered document is its fate: it is skipped, its   *)
(* retrieval fails, its validation fails (for example a digest mismatch),  *)
(* storing it fails, or it is stored.                                      *)
(***************************************************************************)
Fates == {"skip", "retrieval_error", "validation_error", "store_filename", "store_io", "stored"}

\* Result<RetrievedAdvisory, RetrievalError> / Result<ValidatedAdvisory, ValidationError>
StageOk == [ok |-> TRUE, what |-> "none"]
StageErr(what) == [ok |-> FALSE, what |-> what]

\* RetrievingVisitor: load_advisory, its outcome wrapped in a Result
retrieve(fate) == IF fate = "retrieval_error" THEN StageErr("Retrieval") ELSE StageOk

\* ValidationVisitor: a retrieval error is wrapped, a retrieved document validated
validate(res, fate) ==
    IF ~res.ok THEN StageErr("Validation")
    ELSE IF fate = "validation_error" THEN StageErr("Validation")
    ELSE StageOk

\* StoreVisitor::store: Result<(), StoreError>
store(fate) ==
    IF fate = "store_filename" THEN VisitErr("Store")
    ELSE IF fate = "store_io" THEN VisitErr("Store")
    ELSE VisitOk

\* mutant: the store visitor logs a failed result and carries on
StoreVisitor_visit_advisory_LogAndContinue(res, fate) ==
    IF ~res.ok THEN VisitOk ELSE store(fate)

\* StoreVisitor::visit_advisory: self.store(&result?.retrieved).await?; Ok(())
StoreVisitor_visit_advisory(res, fate) ==
    IF ~res.ok THEN VisitErr(res.what) ELSE store(fate)

\* SkipExistingVisitor: an existing, current file is not even retrieved
SkipExistingVisitor_visit_advisory(fate) ==
    IF fate = "skip" THEN VisitOk
    ELSE StoreVisitor_visit_advisory(validate(retrieve(fate), fate), fate)

\* one round of Walker::walk's `for advisory in index`:
\* visit_advisory(..).await.map_err(Error::Visitor)?
Sync_VisitAdvisory ==
    /\ ypc = "walk"
    /\ Len(youtcomes) < Len(ydocs)
    /\ LET at == Len(youtcomes) + 1
           r == SkipExistingVisitor_visit_advisory(ydocs[at])
       IN /\ youtcomes' = Append(youtcomes, r)
          /\ IF r.ok THEN UNCHANGED <<ypc, yresult>>
             ELSE ypc' = "done" /\ yresult' = SyncErrorVisitor(r.what, at)
    /\ UNCHANGED <<notSync, ydocs>>

\* the loop is over: Ok(())
Sync_Finish ==
    /\ ypc = "walk"
    /\ Len(youtcomes) = Len(ydocs)
    /\ ypc' = "done"
    /\ yresult' = SyncOk
    /\ UNCHANGED <<notSync, ydocs, youtcomes>>

InitSync ==
    /\ WalkerIdle
    /\ AgainIdle
    /\ RunIdle
    /\ DirWalkIdle
    /\ PathIdle
    /\ StoreIdle
    /\ IndexIdle
    /\ JoinIdle
    /\ AdvisoryIdle
    /\ ypc = "walk"
    /\ ydocs \in StringsOf(Fates, 0, MaxSyncDocs)
    /\ youtcomes = <<>>
    /\ yresult = SyncNotReturned

NextSync ==
    \/ Sync_VisitAdvisory
    \/ Sync_Finish

SpecSync == InitSync /\ [][NextSync]_vars

(***************************************************************************)
(* Sync::run (csaf-cli/src/cmd/sync.rs): Since::new, then the walk of the  *)
(* visitor chain above, then since.store().  Since is described by the     *)
(* specification: the since file, a single timestamp, seeds the watermark  *)
(* when the run starts and is rewritten when it ends.                      *)
(***************************************************************************)
\* Since::new(..)?: reads the since file; the walk starts with the watermark it holds
Run_SinceNew ==
    /\ fpc = "since_new"
    /\ \E read \in BOOLEAN :
          IF read THEN /\ fsince' = since_file
                       /\ fpc' = "walk" /\ ypc' = "walk"
                       /\ UNCHANGED fresult
          ELSE /\ fpc' = "done" /\ fresult' = "Err"
               /\ UNCHANGED <<fsince, ypc>>
    /\ UNCHANGED <<notSyncRun, ydocs, youtcomes, yresult, since_file, fwrites>>

\* mutant: the result of the walk is not looked at
walk_failed_Ignored(r) == FALSE

\* walk_visitor(..).await?
walk_failed(r) == r # SyncOk

\* the `?` on the walk's result returns its error
Run_WalkFailed ==
    /\ fpc = "walk" /\ ypc = "done"
    /\ walk_failed(yresult)
    /\ fpc' = "done" /\ fresult' = "Err"
    /\ UNCHANGED <<notRun, since_file, fsince, fwrites>>

\* since.store()?; Ok(()): the since file is rewritten with the new watermark
Run_SinceStore ==
    /\ fpc = "walk" /\ ypc = "done"
    /\ ~walk_failed(yresult)
    /\ \/ \E t \in 1..MaxTime :
             /\ since_file' = SomeSince(t) /\ fwrites' = fwrites + 1
             /\ fresult' = "Ok"
       \/ fresult' = "Err" /\ UNCHANGED <<since_file, fwrites>>
    /\ fpc' = "done"
    /\ UNCHANGED <<notRun, fsince>>

InitRun ==
    /\ WalkerIdle
    /\ AgainIdle
    /\ DirWalkIdle
    /\ PathIdle
    /\ StoreIdle
    /\ IndexIdle
    /\ JoinIdle
    /\ AdvisoryIdle
    /\ ypc = "start"
    /\ ydocs \in StringsOf(Fates, 0, MaxSyncDocs)
    /\ youtcomes = <<>>
    /\ yresult = SyncNotReturned
    /\ fpc = "since_new"
    /\ since_file \in {NoSince} \cup {SomeSince(t) : t \in 1..MaxTime}
    /\ fsince = NoSince /\ fwrites = 0
    /\ fresult = "none"

NextRun ==
    \/ Run_SinceNew
    \/ Sync_VisitAdvisory
    \/ Sync_Finish
    \/ Run_WalkFailed
    \/ Run_SinceStore

SpecRun == InitRun /\ [][NextRun]_vars

(***************************************************************************)
(* StoreVisitor (csaf/src/visitors/store.rs).                              *)
(*                                                                         *)
(* The provider metadata that is stored is a sequence of distributions     *)
(* [directory_url, feeds], a URL being a string.  The content of a file is *)
(* a sequence of tokens; a file that is being written holds the tokens     *)
(* written so far.  A directory is [base, name].                           *)
(***************************************************************************)
StoredDistributions ==
    [directory_url : {NoText, SomeText("u1")}, feeds : {<<>>, <<"u2">>, <<"u2", "u3">>}]
StoredMetadatas == StringsOf(StoredDistributions, 0, MaxStoreDists)
\* the metadata a previous run left in the tree
PreviousMetadata == <<[directory_url |-> SomeText("u0"), feeds |-> <<>>]>>

\* serde_json::to_writer_pretty of the metadata: the distributions in order, each
\* with its directory URL, when present, and its feeds in order
to_json_distribution(dist) ==
    <<"{">> \o (IF dist.directory_url.some THEN <<"directory_url", dist.directory_url.v>> ELSE <<>>)
           \o Flatten([k \in 1..Len(dist.feeds) |-> <<"feed", dist.feeds[k]>>])
           \o <<"}">>
to_json(meta) ==
    <<"[">> \o Flatten([k \in 1..Len(meta) |-> to_json_distribution(meta[k])]) \o <<"]">>

\* serde_json::from_reader: the distributions read back, or an error
JsonErr == [ok |-> FALSE, v |-> <<>>]
JsonOk(meta) == [ok |-> TRUE, v |-> meta]

RECURSIVE parse_distributions(_, _, _)
parse_distributions(ts, acc, open) ==
    IF ts = <<>> THEN JsonErr
    ELSE IF Head(ts) = "]" THEN (IF ~open /\ Len(ts) = 1 THEN JsonOk(acc) ELSE JsonErr)
    ELSE IF Head(ts) = "{"
    THEN IF open THEN JsonErr
         ELSE parse_distributions(Tail(ts),
                                  Append(acc, [directory_url |-> NoText, feeds |-> <<>>]), TRUE)
    ELSE IF Head(ts) = "}"
    THEN IF open THEN parse_distributions(Tail(ts), acc, FALSE) ELSE JsonErr
    ELSE IF Head(ts) = "directory_url" /\ open /\ Len(ts) >= 2
    THEN parse_distributions(Tail(Tail(ts)),
                             [acc EXCEPT ![Len(acc)].directory_url = SomeText(ts[2])], TRUE)
    ELSE IF Head(ts) = "feed" /\ open /\ Len(ts) >= 2
    THEN parse_distributions(Tail(Tail(ts)),
                             [acc EXCEPT ![Len(acc)].feeds = Append(@, ts[2])], TRUE)
    ELSE JsonErr

from_json(ts) ==
    IF ts # <<>> /\ Head(ts) = "[" THEN parse_distributions(Tail(ts), <<>>, FALSE) ELSE JsonErr

\* serialize_key: the ASCII-armoured certificate
serialize_key(fp) == <<"BEGIN", fp, "END">>

\* fs::canonicalize: the symlink "link" resolves to "real"
canonicalize(base) == IF base = "link" THEN "real" ELSE base

\* distribution_base(base, url): the directory of a distribution under base
distribution_base(base, url) == [base |-> base, name |-> url]
\* the directory a path names in the file system
Resolve(dir) == [dir EXCEPT !.base = canonicalize(@)]

\* visit_context failed: `?`
ContextFailed(err) ==
    /\ tcontext' = err
    /\ tpc' = "done"

\* store_provider_metadata: create_dir(metadir), AlreadyExists being fine, then
\* File::create(file): the file exists and is empty
Store_CreateProviderMetadata ==
    /\ tpc = "store_provider_metadata"
    /\ \E ok \in BOOLEAN :
          IF ok THEN /\ metafile' = File(<<>>)
                     /\ tpc' = "write_provider_metadata"
                     /\ UNCHANGED tcontext
          ELSE ContextFailed(StoreErrorIo) /\ UNCHANGED metafile
    /\ UNCHANGED <<notStore, tbase, tmetadata, tcerts, keyfiles, dirs, created, stored_certs,
                   tloaded, tdoc, docfiles, tstored>>

\* how far the next write gets: to_writer_pretty writes the text piece by piece,
\* here in two pieces
NextCut(written, total) == IF written < total \div 2 THEN total \div 2 ELSE total

\* prepare_distributions: the URLs whose directories are created, in order
Targets(meta) ==
    Flatten([k \in 1..Len(meta) |->
                (IF meta[k].directory_url.some THEN <<meta[k].directory_url.v>> ELSE <<>>)
                    \o meta[k].feeds])

\* serde_json::to_writer_pretty(&mut out, metadata): the next piece is written into
\* the file, or the write fails
Store_WriteProviderMetadata ==
    /\ tpc = "write_provider_metadata"
    /\ \E ok \in BOOLEAN :
          IF ok
          THEN LET full == to_json(tmetadata)
                   cut == NextCut(Len(metafile.data), Len(full))
               IN /\ metafile' = File(SubSeq(full, 1, cut))
                  /\ tpc' = IF cut < Len(full) THEN "write_provider_metadata"
                            ELSE IF Targets(tmetadata) = <<>> THEN "store_keys"
                            ELSE "prepare_distributions"
                  /\ UNCHANGED tcontext
          ELSE ContextFailed(StoreErrorIo) /\ UNCHANGED metafile
    /\ UNCHANGED <<notStore, tbase, tmetadata, tcerts, keyfiles, dirs, created, stored_certs,
                   tloaded, tdoc, docfiles, tstored>>

\* prepare_distributions: fs::create_dir_all(distribution_base(&self.base, url)) for
\* the next directory URL or feed URL
Store_PrepareDistribution ==
    /\ tpc = "prepare_distributions"
    /\ \E ok \in BOOLEAN :
          IF ok
          THEN LET base == distribution_base(tbase, Targets(tmetadata)[Len(created) + 1])
               IN /\ dirs' = dirs \cup {Resolve(base)}
                  /\ created' = Append(created, Resolve(base))
                  /\ tpc' = IF Len(created) + 1 < Len(Targets(tmetadata))
                            THEN "prepare_distributions" ELSE "store_keys"
                  /\ UNCHANGED tcontext
          ELSE ContextFailed(StoreErrorIo) /\ UNCHANGED <<dirs, created>>
    /\ UNCHANGED <<notStore, tbase, tmetadata, tcerts, metafile, keyfiles, stored_certs,
                   tloaded, tdoc, docfiles, tstored>>

\* visit_context is through: Ok(..)
ContextVisited ==
    /\ tcontext' = StoreOk
    /\ tpc' = "visited"

\* store_keys: std::fs::create_dir of metadata/keys, AlreadyExists being fine
Store_KeysDirectory ==
    /\ tpc = "store_keys"
    /\ \E ok \in BOOLEAN :
          IF ok THEN IF tcerts = <<>> THEN ContextVisited
                     ELSE tpc' = "store_cert" /\ UNCHANGED tcontext
          ELSE ContextFailed(StoreErrorIo)
    /\ UNCHANGED <<notStore, tbase, tmetadata, tcerts, metafile, keyfiles, dirs, created,
                   stored_certs, tloaded, tdoc, docfiles, tstored>>

\* path.join(format!("{}.txt", cert.fingerprint().to_hex()))
cert_name(fp) == <<fp, "txt">>

\* store_cert: serialize_key, then fs::write(&name, data) opens the file, which
\* creates or truncates it
Store_CreateCert ==
    /\ tpc = "store_cert"
    /\ \E outcome \in {"ok", "serialize", "io"} :
          IF outcome = "ok"
          THEN /\ keyfiles' = [keyfiles EXCEPT ![cert_name(tcerts[stored_certs + 1])] = File(<<>>)]
               /\ tpc' = "write_cert"
               /\ UNCHANGED tcontext
          ELSE /\ ContextFailed(IF outcome = "io" THEN StoreErrorIo ELSE StoreErrorSerializeKey)
               /\ UNCHANGED keyfiles
    /\ UNCHANGED <<notStore, tbase, tmetadata, tcerts, metafile, dirs, created, stored_certs,
                   tloaded, tdoc, docfiles, tstored>>

\* fs::write(&name, data) writes the data, or fails
Store_WriteCert ==
    /\ tpc = "write_cert"
    /\ \E ok \in BOOLEAN :
          IF ok
          THEN LET fp == tcerts[stored_certs + 1] IN
               /\ keyfiles' = [keyfiles EXCEPT ![cert_name(fp)] = File(serialize_key(fp))]
               /\ stored_certs' = stored_certs + 1
               /\ IF stored_certs + 1 < Len(tcerts)
                  THEN tpc' = "store_cert" /\ UNCHANGED tcontext
                  ELSE ContextVisited
          ELSE ContextFailed(StoreErrorIo) /\ UNCHANGED <<keyfiles, stored_certs>>
    /\ UNCHANGED <<notStore, tbase, tmetadata, tcerts, metafile, dirs, created,
                   tloaded, tdoc, docfiles, tstored>>

(***************************************************************************)
(* FileSource::load_metadata (csaf/src/source/file.rs) over the tree.      *)
(***************************************************************************)
\* a file: URL: the directory or the file it names
FileUrl(base, name) == [scheme |-> "file", base |-> base, name |-> name]
NoFileUrl == [some |-> FALSE, v |-> FileUrl("none", "none")]
SomeFileUrl(u) == [some |-> TRUE, v |-> u]

\* every order of the elements of a set
Orderings(S) == {q \in [1..Cardinality(S) -> S] : Range(q) = S}

\* scan_keys: one metadata::Key for every regular file "<name>.txt" of metadata/keys,
\* its fingerprint the name before the last '.'
scan_keys(kf) ==
    {[fingerprint |-> n[1], file |-> n] : n \in {k \in KeyNames : kf[k].exists /\ k[2] = "txt"}}

\* mutant: the URL of the store base instead of that of the distribution's directory
file_url_of_Base(base, url) == FileUrl(base, "none")

\* Url::from_directory_path(distribution_base(&self.base, url))
file_url_of(base, url) ==
    LET dir == distribution_base(base, url) IN FileUrl(dir.base, dir.name)

\* for dist in &mut metadata.distributions: the directory URL and every feed URL
\* are replaced
rewrite_distributions(meta, base) ==
    [k \in 1..Len(meta) |->
        [directory_url |-> IF meta[k].directory_url.some
                           THEN SomeFileUrl(file_url_of(base, meta[k].directory_url.v))
                           ELSE NoFileUrl,
         feeds |-> [f \in 1..Len(meta[k].feeds) |-> file_url_of(base, meta[k].feeds[f])]]]

\* FileSource::new canonicalizes the base; load_metadata opens and parses
\* metadata/provider-metadata.json, scans the keys in the order read_dir yields
\* them and rewrites the URLs
FileSource_LoadMetadata ==
    /\ tcontext = StoreOk
    /\ tloaded = MetadataNotLoaded
    /\ LET parsed == from_json(metafile.data) IN
       IF ~metafile.exists \/ ~parsed.ok THEN tloaded' = MetadataErr
       ELSE \/ tloaded' = MetadataErr
            \/ \E keys \in Orderings(scan_keys(keyfiles)) :
                  tloaded' = MetadataOk(rewrite_distributions(parsed.v, canonicalize(tbase)), keys)
    /\ UNCHANGED <<notStore, tpc, tbase, tmetadata, tcerts, metafile, keyfiles, dirs, created,
                   stored_certs, tcontext, tdoc, docfiles, tstored>>

(***************************************************************************)
(* StoreVisitor::store.  The URL of the advisory's distribution is         *)
(* ContextUrl.  The name of the document is the advisory's URL made        *)
(* relative to it; a relative name is a sequence of segments, the parts    *)
(* between its slashes.  store_document, which writes the files, is        *)
(* described by the specification: each file goes to a temporary path and  *)
(* is renamed.                                                             *)
(***************************************************************************)
ContextUrl == Url("ex", <<"d">>, "")
\* the advisories handed to store; the SHA-512 sibling is written like the SHA-256 one
Documents ==
    [url : {Url("ex", <<"d">>, "a.json"), Url("other", <<"d">>, "a.json")},
     signature : BOOLEAN, sha256 : BOOLEAN, sha512 : {FALSE}]

\* Option<String> of make_relative
NoRelative == [some |-> FALSE, v |-> <<>>]
SomeRelative(name) == [some |-> TRUE, v |-> name]

\* "Skip over the common prefix" of the two paths' directories
RECURSIVE CommonPrefix(_, _)
CommonPrefix(a, b) ==
    IF a # <<>> /\ b # <<>> /\ Head(a) = Head(b) THEN 1 + CommonPrefix(Tail(a), Tail(b)) ELSE 0

\* the path of make_relative: a ".." for each directory that is left of the base after
\* the common prefix, then what is left of the URL's directories, then the URL's file
\* name unless the result is empty and both file names are the same; a URL that ends
\* in a slash gives a name that ends in a slash
relative_path(base, url) ==
    LET n == CommonPrefix(base.dirs, url.dirs)
        up == [i \in 1..(Len(base.dirs) - n) |-> ".."]
        relative == up \o SubSeq(url.dirs, n + 1, Len(url.dirs))
    IN  IF relative = <<>> /\ base.file = url.file THEN <<>>
        ELSE IF url.file # "" THEN Append(relative, url.file)
        ELSE IF relative = <<>> THEN <<"", "">>
        ELSE Append(relative, "")

\* mutant: a relative name is derived whatever the host
make_relative_AnyHost(base, url) == SomeRelative(relative_path(base, url))

\* Url::make_relative: None when the URLs differ in scheme, host or port
make_relative(base, url) ==
    IF base.host = url.host THEN SomeRelative(relative_path(base, url)) ELSE NoRelative

\* store: the name relative to the distribution, or Err(StoreError::Filename(url));
\* then store_document is called
StoreVisitor_Store ==
    /\ tpc = "visited"
    /\ \E d \in Documents :
          /\ tdoc' = d
          /\ IF make_relative(ContextUrl, d.url).some
             THEN tpc' = "store_document" /\ UNCHANGED tstored
             ELSE tpc' = "done" /\ tstored' = StoreErrorFilename(d.url)
    /\ UNCHANGED <<notStore, tbase, tmetadata, tcerts, metafile, keyfiles, dirs, created,
                   stored_certs, tcontext, tloaded, docfiles>>

\* store_document: the data is written to a temporary path
StoreDocument_WriteTemporary ==
    /\ tpc = "store_document"
    /\ \E ok \in BOOLEAN :
          IF ok THEN /\ docfiles' = [docfiles EXCEPT !["a.json.tmp"] = File(<<"data">>)]
                     /\ tpc' = "rename_document"
                     /\ UNCHANGED tstored
          ELSE /\ tpc' = "done" /\ tstored' = StoreErrorIo
               /\ UNCHANGED docfiles
    /\ UNCHANGED <<notStore, tbase, tmetadata, tcerts, metafile, keyfiles, dirs, created,
                   stored_certs, tcontext, tloaded, tdoc>>

\* store_document: the temporary file is renamed to the final name, then the
\* siblings that are present are written the same way
StoreDocument_Rename ==
    /\ tpc = "rename_document"
    /\ docfiles' = [n \in DocNames |->
                       IF n = "a.json" THEN docfiles["a.json.tmp"]
                       ELSE IF n = "a.json.tmp" THEN Absent
                       ELSE IF n = "a.json.asc" /\ tdoc.signature THEN File(<<"signature">>)
                       ELSE IF n = "a.json.sha256" /\ tdoc.sha256 THEN File(<<"sha256">>)
                       ELSE IF n = "a.json.sha512" /\ tdoc.sha512 THEN File(<<"sha512">>)
                       ELSE docfiles[n]]
    /\ tpc' = "done"
    /\ tstored' = StoreOk
    /\ UNCHANGED <<notStore, tbase, tmetadata, tcerts, metafile, keyfiles, dirs, created,
                   stored_certs, tcontext, tloaded, tdoc>>

InitStore ==
    /\ WalkerIdle
    /\ AgainIdle
    /\ RunIdle
    /\ DirWalkIdle
    /\ PathIdle
    /\ IndexIdle
    /\ JoinIdle
    /\ AdvisoryIdle
    /\ SyncIdle
    /\ tpc = "store_provider_metadata"
    /\ tbase \in {"real", "link"}
    /\ tmetadata \in StoredMetadatas
    /\ tcerts \in StringsOf(Fingerprints, 0, MaxCerts)
    /\ \E previous \in BOOLEAN :
          /\ metafile = IF previous THEN File(to_json(PreviousMetadata)) ELSE Absent
          /\ keyfiles = [n \in KeyNames |->
                            IF previous /\ n = cert_name("A") THEN File(serialize_key("A"))
                            ELSE Absent]
          /\ dirs = IF previous THEN {Resolve(distribution_base(tbase, "u0"))} ELSE {}
    /\ created = <<>> /\ stored_certs = 0
    /\ tcontext = StoreNotReturned
    /\ tloaded = MetadataNotLoaded
    /\ tdoc = NoDocument
    /\ docfiles = [n \in DocNames |-> Absent]
    /\ tstored = StoreNotReturned

NextStore ==
    \/ Store_CreateProviderMetadata
    \/ Store_WriteProviderMetadata
    \/ Store_PrepareDistribution
    \/ Store_KeysDirectory
    \/ Store_CreateCert
    \/ Store_WriteCert
    \/ FileSource_LoadMetadata
    \/ StoreVisitor_Store
    \/ StoreDocument_WriteTemporary
    \/ StoreDocument_Rename

SpecStore == InitStore /\ [][NextStore]_vars

(***************************************************************************)
(* The path StoreVisitor::store hands to store_document                    *)
(* (csaf/src/visitors/store.rs): the directory of the advisory's           *)
(* distribution joined with the advisory's URL made relative to the        *)
(* distribution's URL.  A path is the sequence of its components; an       *)
(* absolute path starts with the empty component.                          *)
(***************************************************************************)
\* distribution_base(&self.base, advisory.context.url().as_str()), as one component
DistributionDirectory == <<"distribution_base">>

\* Path::join: an absolute name replaces the path, any other name is appended
join(path, name) == IF Len(name) >= 2 /\ Head(name) = "" THEN name ELSE path \o name

\* store: name = context.url().make_relative(&advisory.url), None is
\* Err(StoreError::Filename); file = distribution_base.join(name)
Store_File ==
    /\ RunIdle
    /\ ppc = "call"
    /\ LET name == make_relative(pcontext, padvisory) IN
       pfile' = IF name.some THEN SomePath(join(DistributionDirectory, name.v)) ELSE NoPath
    /\ ppc' = "done"
    /\ UNCHANGED <<notPath, pcontext, padvisory>>

Segments == {"d", "e"}

\* a distribution's URL: a directory URL ends in a slash, a feed's URL in a file name
ContextUrls == {Url("ex", ds, f) : ds \in StringsOf(Segments, 0, MaxSegments), f \in {"", "feed.json"}}

AdvisoryUrls ==
    {Url(h, ds, f) : h \in {"ex", "other"}, ds \in StringsOf(Segments, 0, MaxSegments),
                     f \in {"", "a.json"}}

InitPath ==
    /\ WalkerIdle
    /\ AgainIdle
    /\ RunIdle
    /\ DirWalkIdle
    /\ IndexIdle
    /\ JoinIdle
    /\ AdvisoryIdle
    /\ SyncIdle
    /\ StoreIdle
    /\ ppc = "call"
    /\ pcontext \in ContextUrls
    /\ padvisory \in AdvisoryUrls
    /\ pfile = NoPath

NextPath == Store_File

SpecPath == InitPath /\ [][NextPath]_vars

(***************************************************************************)
(* FileSource::walk_distribution and the receiving loop of                 *)
(* FileSource::load_index (csaf/src/source/file.rs): a blocking thread     *)
(* walks the directory and sends each entry over a bounded channel, and    *)
(* load_index receives until the channel is closed.  An entry is "entry",  *)
(* or "error" when load_index returns an error on it (a walkdir error, or  *)
(* a file whose metadata cannot be read).                                  *)
(***************************************************************************)
\* mpsc::channel(8)
Capacity == 8

\* load_index: walk_distribution fails when the URL is no file path (`?`), else the
\* channel is created and the thread is spawned
LoadIndex_WalkDistribution ==
    /\ lpc = "call"
    /\ \E path \in BOOLEAN :
          IF path THEN thread' = "next" /\ lpc' = "recv" /\ UNCHANGED lresult
          ELSE lpc' = "done" /\ lresult' = LoadedErr("Path") /\ UNCHANGED thread
    /\ UNCHANGED <<notDirWalk, dentries, produced, channel, received>>

\* the for loop of the thread takes the next entry of the iterator; at its end the
\* closure returns and the sender is dropped
WalkThread_Next ==
    /\ thread = "next"
    /\ IF produced < Len(dentries)
       THEN thread' = "send" /\ produced' = produced + 1
       ELSE thread' = "finished" /\ UNCHANGED produced
    /\ UNCHANGED <<notDirWalk, dentries, channel, lpc, received, lresult>>

\* mutant: the thread never learns that the receiver is gone
receiver_dropped_Unnoticed == FALSE

\* the receiver is dropped when load_index returns
receiver_dropped == lpc = "done"

\* mutant: the channel takes one entry more
has_capacity_OneMore == Len(channel) <= Capacity

\* a bounded channel accepts a message while fewer than its capacity are buffered
has_capacity == Len(channel) < Capacity

\* tx.blocking_send(entry): Err when the channel is closed (the thread returns), else
\* the entry is queued as soon as the channel has room
WalkThread_Send ==
    /\ thread = "send"
    /\ IF receiver_dropped
       THEN thread' = "aborted" /\ UNCHANGED channel
       ELSE /\ has_capacity
            /\ channel' = Append(channel, produced)
            /\ thread' = "next"
    /\ UNCHANGED <<notDirWalk, dentries, produced, lpc, received, lresult>>

\* entries.recv().await yields Some(entry): `entry?` and the `?` of the loop body
\* return the error, which drops the receiver and what is buffered; any other entry
\* is consumed
LoadIndex_Recv ==
    /\ lpc = "recv" /\ channel # <<>>
    /\ IF dentries[Head(channel)] = "error"
       THEN /\ lpc' = "done" /\ lresult' = LoadedErr("Entry")
            /\ channel' = <<>>
            /\ UNCHANGED received
       ELSE /\ received' = Append(received, Head(channel))
            /\ channel' = Tail(channel)
            /\ UNCHANGED <<lpc, lresult>>
    /\ UNCHANGED <<notDirWalk, dentries, thread, produced>>

\* entries.recv().await yields None: the sender is dropped and nothing is buffered
LoadIndex_Return ==
    /\ lpc = "recv" /\ channel = <<>> /\ thread \in {"finished", "aborted"}
    /\ lpc' = "done" /\ lresult' = LoadedOk(received)
    /\ UNCHANGED <<notDirWalk, dentries, thread, produced, channel, received>>

InitDirWalk ==
    /\ WalkerIdle
    /\ AgainIdle
    /\ RunIdle
    /\ IndexIdle
    /\ JoinIdle
    /\ AdvisoryIdle
    /\ SyncIdle
    /\ StoreIdle
    /\ PathIdle
    /\ dentries \in StringsOf({"entry", "error"}, 0, MaxWalk)
    /\ thread = "none" /\ produced = 0 /\ channel = <<>>
    /\ lpc = "call" /\ received = <<>> /\ lresult = NotLoaded

WalkThread == WalkThread_Next \/ WalkThread_Send

LoadIndex == LoadIndex_WalkDistribution \/ LoadIndex_Recv \/ LoadIndex_Return

NextDirWalk ==
    \/ LoadIndex_WalkDistribution
    \/ WalkThread_Next
    \/ WalkThread_Send
    \/ LoadIndex_Recv
    \/ LoadIndex_Return

SpecDirWalk == InitDirWalk /\ [][NextDirWalk]_vars

\* the blocking thread runs on its own; load_index is awaited by the walker
SpecDirWalkLive == SpecDirWalk /\ WF_vars(WalkThread) /\ WF_vars(LoadIndex)

(***************************************************************************)
(* What the walker did, read from the observation variables.               *)
(***************************************************************************)
IsPrefix(s, t) == Len(s) <= Len(t) /\ SubSeq(t, 1, Len(s)) = s

IsVisit(e) == e.op = "visit_advisory"
IsLoadIndex(e) == e.op = "load_index"
IsVisitContext(e) == e.op = "visit_context"

\* the advisories visit_advisory was called with, in call order
Visited == [i \in 1..Len(SelectSeq(trace, IsVisit)) |->
               Advisory(SelectSeq(trace, IsVisit)[i].context, SelectSeq(trace, IsVisit)[i].k)]

\* the index load_index returned for c (empty when it was not called or failed)
IndexReturned(c) == IF indexOf[c] = <<>> THEN <<>> ELSE indexOf[c][1]

\* the documents of the indices, distribution after distribution, each in index order
ExpectedOrder == Flatten([i \in 1..Len(distributions) |-> IndexReturned(distributions[i])])

Occurrences(s, x) == Cardinality({i \in 1..Len(s) : s[i] = x})

\* the distribution filter is set and returns false for c
Rejected(c) == distribution_filter.some /\ c \notin distribution_filter.accept

VisitorFailures == SelectSeq(failed, LAMBDA e : e.op \in {"visit_context", "visit_advisory"})
VisitFailures == SelectSeq(failed, IsVisit)

(***************************************************************************)
(* C1: in the sequential walk the visit_advisory calls come in             *)
(* distribution-then-index order: what was visited so far is always a      *)
(* prefix of the loaded indices laid end to end in distribution order.     *)
(***************************************************************************)
C1_SequentialOrder ==
    mode = "walk" => IsPrefix(Visited, ExpectedOrder)

\* a finished walk over two distributions, one of them with two documents
C1_Witness ==
    /\ mode = "walk" /\ result = Ok
    /\ Len(Visited) = 3
    /\ Cardinality({Visited[i].context : i \in 1..Len(Visited)}) = 2

(***************************************************************************)
(* C2 as stated: when walk_parallel has returned, every visit_advisory     *)
(* that was started has completed.  An error return drops the futures in   *)
(* flight, so a started visit_advisory may never complete.                 *)
(***************************************************************************)
C2_Original ==
    (mode = "walk_parallel" /\ pc = "done") =>
        \A w \in 1..Len(futures) : futures[w].state # "dropped_visiting"

(***************************************************************************)
(* C2 amended: visit_context is called before every visit_advisory; after  *)
(* walk_parallel returned no visit_advisory is running; and when it        *)
(* returned Ok every advisory was started and every started visit_advisory *)
(* has completed.                                                          *)
(***************************************************************************)
C2_HappensBefore ==
    mode = "walk_parallel" =>
        /\ \A i \in 1..Len(trace) :
              IsVisit(trace[i]) => \E j \in 1..(i - 1) : IsVisitContext(trace[j])
        /\ pc = "done" => Visiting(futures) = {}
        /\ result = Ok =>
              /\ Len(futures) = Len(advisories)
              /\ \A w \in 1..Len(futures) : futures[w].state = "done"

\* an error return while another visit_advisory was running
C2_Witness ==
    /\ mode = "walk_parallel" /\ result.kind = "Visitor"
    /\ \E w \in 1..Len(futures) : futures[w].state = "dropped_visiting"

(***************************************************************************)
(* C3 as stated: at most limit visit_advisory calls are in flight, for     *)
(* every limit.  A limit of 0 is no limit.                                 *)
(***************************************************************************)
C3_Original ==
    mode = "walk_parallel" => Cardinality(Visiting(futures)) <= limit

(***************************************************************************)
(* C3 amended: for every limit >= 1 at most limit worker futures, hence at *)
(* most limit visit_advisory calls, are in flight.                         *)
(***************************************************************************)
C3_ConcurrencyBound ==
    (mode = "walk_parallel" /\ limit >= 1) =>
        /\ Cardinality(InFlight(futures)) <= limit
        /\ Cardinality(Visiting(futures)) <= limit

\* the bound is reached while an advisory still waits to be started
C3_Witness ==
    /\ mode = "walk_parallel" /\ limit = 2
    /\ Cardinality(Visiting(futures)) = 2
    /\ pulled < Len(advisories)

(***************************************************************************)
(* C4: when walk_parallel returned Ok, visit_advisory was called exactly   *)
(* once for each document of each accepted distribution's index and for    *)
(* nothing else; the single progress bar was started with that total, got  *)
(* that many ticks and was finished once; and in every state a finished    *)
(* bar has all its ticks (finish comes after the last tick).               *)
(***************************************************************************)
C4_ParallelComplete ==
    mode = "walk_parallel" =>
        /\ result = Ok =>
              /\ \A c \in Range(ExpandAll(metadata)) :
                    ~Rejected(c) =>
                        \A a \in Range(IndexReturned(c)) : Occurrences(Visited, a) = 1
              /\ \A a \in Range(Visited) :
                    /\ a.context \in Range(ExpandAll(metadata)) /\ ~Rejected(a.context)
                    /\ a \in Range(IndexReturned(a.context))
              /\ Len(bars) = 1
              /\ bars[1].size = Len(ExpectedOrder)
              /\ bars[1].ticks = bars[1].size
              /\ bars[1].finished = 1
        /\ \A b \in 1..Len(bars) :
              bars[b].finished > 0 => bars[b].finished = 1 /\ bars[b].ticks = bars[b].size

\* a successful parallel walk over three documents of two distributions
C4_Witness ==
    /\ mode = "walk_parallel" /\ result = Ok
    /\ Len(Visited) = 3
    /\ Cardinality({Visited[i].context : i \in 1..Len(Visited)}) = 2

(***************************************************************************)
(* C5: load_index and visit_advisory are only ever called for              *)
(* distributions that pass the distribution filter, in both modes, and     *)
(* load_index only for members of the list the filter produced.            *)
(***************************************************************************)
C5_RejectedUntouched ==
    \A i \in 1..Len(trace) :
        (IsLoadIndex(trace[i]) \/ IsVisit(trace[i])) =>
            /\ ~Rejected(trace[i].context)
            /\ trace[i].context \in Range(distributions)

\* a walk that loaded an index and finished although the filter rejected a distribution
C5_Witness ==
    /\ result = Ok
    /\ \E c \in Range(ExpandAll(metadata)) : Rejected(c)
    /\ \E i \in 1..Len(trace) : IsLoadIndex(trace[i])

(***************************************************************************)
(* C6: in the sequential walk, once visit_context or a visit_advisory has  *)
(* returned an error, the walk has returned that error as Error::Visitor   *)
(* and the failing call stays the last call made: no load_index and no     *)
(* visit_advisory follows it.                                              *)
(***************************************************************************)
C6_SequentialAbort ==
    (mode = "walk" /\ VisitorFailures # <<>>) =>
        /\ Len(VisitorFailures) = 1
        /\ result = ErrorVisitor(Advisory(VisitorFailures[1].context, VisitorFailures[1].k))
        /\ pc = "done"
        /\ trace[Len(trace)] = VisitorFailures[1]

\* the second visit_advisory failed while a further distribution was still to be walked
C6_Witness ==
    /\ mode = "walk" /\ result.kind = "Visitor"
    /\ Len(Visited) = 2
    /\ di < Len(distributions)

(***************************************************************************)
(* C7 as stated: once a visit_advisory has returned an error, no further   *)
(* visit_advisory is started.  The failing worker still takes the progress *)
(* mutex and ticks before its error reaches try_for_each_concurrent, and   *)
(* meanwhile the fan-out starts further advisories.                        *)
(***************************************************************************)
C7_Original ==
    [][(mode = "walk_parallel" /\ VisitFailures # <<>>) => pulled' = pulled]_vars

(***************************************************************************)
(* C7 amended: walk_parallel returns the error of the visit_advisory that  *)
(* failed first, and once it has returned nothing is started any more.     *)
(***************************************************************************)
C7_FirstError ==
    /\ []((mode = "walk_parallel" /\ result.kind = "Visitor" /\ VisitFailures # <<>>) =>
             result = ErrorVisitor(Advisory(VisitFailures[1].context, VisitFailures[1].k)))
    /\ [][(mode = "walk_parallel" /\ pc = "done") => (pulled' = pulled /\ trace' = trace)]_vars

\* two visit_advisory calls failed and the walk returned
C7_Witness ==
    /\ mode = "walk_parallel" /\ result.kind = "Visitor"
    /\ Len(VisitFailures) = 2

(***************************************************************************)
(* C8: when load_metadata fails, walk and walk_parallel return             *)
(* Error::Source and load_metadata is the only call that was ever made.    *)
(***************************************************************************)
C8_MetadataFailure ==
    (\E i \in 1..Len(failed) : failed[i].op = "load_metadata") =>
        /\ result = ErrorSource(NoContext)
        /\ pc = "done"
        /\ trace = <<Call("load_metadata", NoContext, 0)>>

\* load_metadata failed for a provider that has a distribution
C8_Witness ==
    /\ failed = <<Call("load_metadata", NoContext, 0)>>
    /\ ExpandAll(metadata) # <<>>
    /\ pc = "done"

(***************************************************************************)
(* C9: as long as no call failed and every index loaded so far is empty,   *)
(* visit_advisory is never called and the walk is never stuck; when it has *)
(* returned, it returned Ok and visit_context was called exactly once.     *)
(***************************************************************************)
C9_EmptyIndices ==
    (failed = <<>> /\ \A c \in Contexts : IndexReturned(c) = <<>>) =>
        /\ Visited = <<>>
        /\ pc # "done" => ENABLED Next
        /\ pc = "done" =>
              /\ result = Ok
              /\ Len(SelectSeq(trace, IsVisitContext)) = 1

\* a finished walk over two distributions with empty indices
C9_Witness ==
    /\ pc = "done" /\ failed = <<>>
    /\ Len(SelectSeq(trace, IsLoadIndex)) = 2
    /\ \A c \in Contexts : IndexReturned(c) = <<>>

(***************************************************************************)
(* What load_index is expected to return.                                  *)
(***************************************************************************)
\* the timestamp of the entry at position p
Stamp(p) == IF isource = "http" THEN entries[p].timestamp ELSE entries[p].mtime

\* the entries that are documents of the index: every entry of changes.csv or of
\* the feed; for the File source the files whose name ends in .json
IsDocument(p) ==
    isource = "http" \/ (entries[p].kind \in {"file", "symlink"} /\ entries[p].json)

RECURSIVE Positions(_, _)
Positions(p, n) == IF p > n THEN <<>> ELSE <<p>> \o Positions(p + 1, n)

(***************************************************************************)
(* C10: when load_index of the HTTP source or of the File source returns   *)
(* Ok, it returns, in index order, exactly the documents whose timestamp   *)
(* is >= the since watermark (equal is kept, strictly less is excluded),   *)
(* and every document when there is no watermark.                          *)
(***************************************************************************)
C10_SinceFilter ==
    (ipc = "done" /\ loaded.kind = "Ok") =>
        [i \in 1..Len(loaded.docs) |-> loaded.docs[i].url]
            = SelectSeq(Positions(1, Len(entries)),
                        LAMBDA p : IsDocument(p) /\ (since.some => Stamp(p) >= since.t))

\* the HTTP source dropped an entry older than the watermark and kept one equal to it
C10_Witness ==
    /\ isource = "http" /\ ipc = "done" /\ loaded.kind = "Ok"
    /\ since.some
    /\ \E p, q \in 1..Len(entries) :
          /\ entries[p].timestamp < since.t /\ entries[q].timestamp = since.t
          /\ Len(loaded.docs) = 1 /\ loaded.docs[1].url = q

(***************************************************************************)
(* C12: for a directory distribution, a changes.csv path is joined to the  *)
(* base URL so that exactly one slash is dropped when the base ends in '/' *)
(* and the path starts with '/'; in every other case the path is appended  *)
(* to the base unchanged.                                                  *)
(***************************************************************************)
C12_JoinDropsOneSlash ==
    jpc = "done" =>
        joined = JoinedOk(IF ends_with(jbase, "/") /\ starts_with(jfile, "/")
                          THEN jbase \o Tail(jfile)
                          ELSE jbase \o jfile)

(***************************************************************************)
(* Observation of load_advisory.                                           *)
(***************************************************************************)
\* load_advisory has polled its futures
SubFetchesStarted == apc \in {"sub_fetch", "body_request", "body_stream", "done"}
\* the body fetch is in progress
BodyInProgress == apc \in {"body_request", "body_stream"}
\* the digest future of a suffix
SubOf(suffix) == IF suffix = ".sha256" THEN "sha256" ELSE "sha512"
DigestSuffixes == {".sha256", ".sha512"}
Whitespace == {" ", "\t"}

RECURSIVE SkipWhitespace(_)
SkipWhitespace(s) ==
    IF s # <<>> /\ Head(s) \in Whitespace THEN SkipWhitespace(Tail(s)) ELSE s

RECURSIVE UpToWhitespace(_)
UpToWhitespace(s) ==
    IF s = <<>> \/ Head(s) \in Whitespace THEN <<>>
    ELSE <<Head(s)>> \o UpToWhitespace(Tail(s))

\* the first whitespace-delimited token of a text
FirstToken(text) == UpToWhitespace(SkipWhitespace(text))

\* expected is the text up to its first blank
UpToFirstBlank(expected, text) ==
    /\ IsPrefix(expected, text)
    /\ \A i \in 1..Len(expected) : expected[i] # " "
    /\ Len(expected) < Len(text) => text[Len(expected) + 1] = " "

(***************************************************************************)
(* C11 as stated: the SHA-256 text is fetched from the discovered digest   *)
(* URL when that URL ends in .sha256 and in every other case (digest URL   *)
(* absent, or present with another suffix) from <document URL>.sha256; the *)
(* SHA-512 text analogously.                                               *)
(***************************************************************************)
C11_Original ==
    SubFetchesStarted =>
        \A suffix \in DigestSuffixes :
            subs[SubOf(suffix)].url =
                IF discovered.digest.some /\ ends_with(discovered.digest.v, suffix)
                THEN discovered.digest.v
                ELSE discovered.url \o <<suffix>>

(***************************************************************************)
(* C11 amended: the SHA-256 text is fetched from the discovered digest URL *)
(* when that URL ends in .sha256, and from <document URL>.sha256 when no   *)
(* digest URL was discovered; when a digest URL with another suffix was    *)
(* discovered, no SHA-256 text is fetched and the returned document has no *)
(* expected SHA-256.  The SHA-512 text analogously.                        *)
(***************************************************************************)
C11_DigestSource ==
    SubFetchesStarted =>
        \A suffix \in DigestSuffixes :
            LET sub == subs[SubOf(suffix)]
                got == IF suffix = ".sha256" THEN retrieved.sha256 ELSE retrieved.sha512
            IN  IF ~discovered.digest.some
                THEN sub.url = discovered.url \o <<suffix>>
                ELSE IF discovered.digest.v[Len(discovered.digest.v)] = suffix
                THEN sub.url = discovered.digest.v
                ELSE /\ sub.url = <<>>
                     /\ sub.st = "done" /\ ~sub.out.some
                     /\ ~got.some

C11_Witness ==
    /\ retrieved.kind = "Ok"
    /\ discovered.digest = SomeText(<<"doc", ".json", ".sha512">>)
    /\ retrieved.sha512.some
    /\ ~retrieved.sha256.some
    /\ subs["sha256"].url = <<>>

(***************************************************************************)
(* C13: for every fetched digest file content, the expected digest that    *)
(* load_advisory uses is the first whitespace-delimited token of the       *)
(* content, also when the content starts with whitespace or the token is   *)
(* followed by a tab.                                                      *)
(***************************************************************************)
C13_FirstToken ==
    /\ (sha256.some => sha256.expected = FirstToken(subs["sha256"].out.v))
    /\ (sha512.some => sha512.expected = FirstToken(subs["sha512"].out.v))

(***************************************************************************)
(* C14 as stated: the streaming of the document body runs concurrently     *)
(* with the signature and digest sub-fetches: while a sub-fetch has not    *)
(* yet completed, the body fetch is in progress as well.                   *)
(***************************************************************************)
C14_Original ==
    (\E n \in SubNames : subs[n].st = "fetching") => BodyInProgress

(***************************************************************************)
(* C14 amended: the signature and digest sub-fetches run concurrently with *)
(* one another, and the body fetch is in progress only after all three     *)
(* have completed: the body is never fetched while a sub-fetch is pending. *)
(***************************************************************************)
C14_BodyAfterSubFetches ==
    BodyInProgress => \A n \in SubNames : subs[n].st = "done"

C14_Witness ==
    /\ apc = "body_stream"
    /\ sent # <<>>
    /\ \A n \in SubNames : subs[n].st = "done" /\ subs[n].url # <<>>

(***************************************************************************)
(* C15: load_advisory returns a retrieved document only after the          *)
(* signature fetch, the SHA-256 fetch, the SHA-512 fetch and the body      *)
(* fetch have all completed, and the document carries the signature and    *)
(* the digest values those fetches produced.                               *)
(***************************************************************************)
C15_AssembledAfterAll ==
    retrieved.kind = "Ok" =>
        /\ \A n \in SubNames : subs[n].st = "done"
        /\ apc = "done"
        /\ retrieved.data = Flatten(sent)
        /\ retrieved.signature = subs["signature"].out
        /\ retrieved.sha256.some = subs["sha256"].out.some
        /\ retrieved.sha512.some = subs["sha512"].out.some
        /\ retrieved.sha256.some =>
               UpToFirstBlank(retrieved.sha256.expected, subs["sha256"].out.v)
        /\ retrieved.sha512.some =>
               UpToFirstBlank(retrieved.sha512.expected, subs["sha512"].out.v)

C15_Witness ==
    /\ retrieved.kind = "Ok"
    /\ retrieved.signature.some
    /\ retrieved.sha256.some /\ retrieved.sha256.expected # <<>>
    /\ retrieved.sha512.some
    /\ retrieved.data # <<>>

(***************************************************************************)
(* C16: while the body is streamed, after each processed chunk every       *)
(* present hasher has absorbed exactly the bytes that are in the data      *)
(* buffer, in the same order, each byte once; so the digests of the        *)
(* returned document are those of exactly the returned data.               *)
(***************************************************************************)
C16_HashersFollowBuffer ==
    /\ data = Flatten(sent)
    /\ sha256.some => sha256.current = data
    /\ sha512.some => sha512.current = data
    /\ retrieved.kind = "Ok" =>
           /\ retrieved.sha256.some => retrieved.sha256.current = retrieved.data
           /\ retrieved.sha512.some => retrieved.sha512.current = retrieved.data

C16_Witness ==
    /\ retrieved.kind = "Ok"
    /\ retrieved.sha256.some /\ retrieved.sha512.some
    /\ Len(sent) = MaxChunks
    /\ \E i \in 1..Len(sent) : Len(sent[i]) > 1
    /\ retrieved.sha512.current = retrieved.data

(***************************************************************************)
(* Observation of the sync walk.                                           *)
(***************************************************************************)
\* the position of the first document whose fate is in fates, or 0
FirstOf(docs, fates) ==
    IF \E i \in 1..Len(docs) : docs[i] \in fates
    THEN CHOOSE i \in 1..Len(docs) :
            /\ docs[i] \in fates
            /\ \A j \in 1..(i - 1) : docs[j] \notin fates
    ELSE 0

StoreFailures == {"store_filename", "store_io"}
DocumentFailures == {"retrieval_error", "validation_error"}

(***************************************************************************)
(* C17 as stated: in the sync pipeline a retrieval or validation failure   *)
(* of one document does not abort the walk, the remaining documents are    *)
(* still visited and the walk completes without error; the walk aborts     *)
(* only on store errors.                                                   *)
(***************************************************************************)
C17_Original ==
    ypc = "done" =>
        LET f == FirstOf(ydocs, StoreFailures) IN
        IF f = 0 THEN yresult = SyncOk /\ Len(youtcomes) = Len(ydocs)
        ELSE yresult = SyncErrorVisitor("Store", f) /\ Len(youtcomes) = f

(***************************************************************************)
(* C17 amended: in the sync pipeline the store visitor returns a retrieval *)
(* or validation failure it is handed as its own error, so the walk aborts *)
(* at the first document whose retrieval, validation or store fails: the   *)
(* documents after it are not visited and the walk returns that document's *)
(* error; without such a document every document is visited and the walk   *)
(* completes without error.                                                *)
(***************************************************************************)
C17_AbortsAtFirstFailure ==
    ypc = "done" =>
        LET f == FirstOf(ydocs, StoreFailures \cup DocumentFailures) IN
        IF f = 0 THEN yresult = SyncOk /\ Len(youtcomes) = Len(ydocs)
        ELSE /\ yresult.kind = "Visitor" /\ yresult.at = f
             /\ yresult.what = (IF ydocs[f] \in StoreFailures THEN "Store" ELSE "Validation")
             /\ Len(youtcomes) = f
             /\ \A i \in 1..(f - 1) : youtcomes[i].ok

C17_Witness ==
    /\ ypc = "done"
    /\ Len(ydocs) = 3
    /\ ydocs[1] = "stored" /\ ydocs[2] = "validation_error" /\ ydocs[3] = "stored"
    /\ yresult = SyncErrorVisitor("Validation", 2)

(***************************************************************************)
(* Observation of the stored tree.                                         *)
(***************************************************************************)
\* the names under which the store leaves the files of an advisory
FinalDocNames == DocNames \ {"a.json.tmp"}
\* what each of them holds when it is complete
CompleteDocFile(n) ==
    IF n = "a.json" THEN <<"data">>
    ELSE IF n = "a.json.asc" THEN <<"signature">>
    ELSE IF n = "a.json.sha256" THEN <<"sha256">>
    ELSE <<"sha512">>

\* the directory prepare_distributions created for a URL of the metadata
CreatedFor(url) ==
    created[CHOOSE i \in 1..Len(created) :
                /\ Targets(tmetadata)[i] = url
                /\ \A j \in 1..(i - 1) : Targets(tmetadata)[j] # url]

\* the directory a file: URL names
DirectoryOf(u) == [base |-> u.base, name |-> u.name]

(***************************************************************************)
(* C18: no file the store visitor writes (provider-metadata.json, key      *)
(* files, documents) is ever observable under its final name with partial  *)
(* content: at every moment such a file is absent, the complete previous   *)
(* version or the complete new version.                                    *)
(***************************************************************************)
C18_NoPartialFiles ==
    /\ metafile.exists => metafile.data \in {to_json(PreviousMetadata), to_json(tmetadata)}
    /\ \A n \in KeyNames : keyfiles[n].exists => keyfiles[n].data = <<"BEGIN", n[1], "END">>
    /\ \A n \in FinalDocNames : docfiles[n].exists => docfiles[n].data = CompleteDocFile(n)

(***************************************************************************)
(* C19: FileSource::load_metadata over a tree written by                   *)
(* StoreVisitor::visit_context returns the same distributions in the same  *)
(* order, every directory URL and feed URL replaced by the file: URL of    *)
(* exactly the directory the store created for it, and one key for every   *)
(* stored key file, its fingerprint the stem of the file name.             *)
(***************************************************************************)
C19_RoundTrip ==
    tloaded.kind = "Ok" =>
        /\ Len(tloaded.distributions) = Len(tmetadata)
        /\ \A k \in 1..Len(tmetadata) :
              LET orig == tmetadata[k]
                  got == tloaded.distributions[k]
              IN /\ got.directory_url.some = orig.directory_url.some
                 /\ orig.directory_url.some =>
                        /\ got.directory_url.v.scheme = "file"
                        /\ DirectoryOf(got.directory_url.v) = CreatedFor(orig.directory_url.v)
                        /\ DirectoryOf(got.directory_url.v) \in dirs
                 /\ Len(got.feeds) = Len(orig.feeds)
                 /\ \A f \in 1..Len(orig.feeds) :
                        /\ got.feeds[f].scheme = "file"
                        /\ DirectoryOf(got.feeds[f]) = CreatedFor(orig.feeds[f])
        /\ Len(tloaded.keys) = Cardinality({n \in KeyNames : keyfiles[n].exists})
        /\ {tloaded.keys[k].file : k \in 1..Len(tloaded.keys)}
               = {n \in KeyNames : keyfiles[n].exists}
        /\ \A k \in 1..Len(tloaded.keys) :
               tloaded.keys[k].fingerprint = tloaded.keys[k].file[1]

C19_Witness ==
    /\ tloaded.kind = "Ok"
    /\ tbase = "link"
    /\ Len(tloaded.distributions) = 2
    /\ tloaded.distributions[1].directory_url.some
    /\ Len(tloaded.distributions[2].feeds) = 2
    /\ ~tloaded.distributions[2].directory_url.some
    /\ Len(tloaded.keys) = 2
    /\ tcerts = <<"B", "A">>

(***************************************************************************)
(* C20: when the document URL cannot be made relative to the base URL of   *)
(* its distribution, store fails with a Filename error that carries the    *)
(* document URL and writes nothing: no document file, no sibling           *)
(* signature or digest file.                                               *)
(***************************************************************************)
C20_FilenameError ==
    /\ (tdoc # NoDocument /\ tdoc.url.host # ContextUrl.host) =>
           /\ tstored = StoreErrorFilename(tdoc.url)
           /\ \A n \in DocNames : ~docfiles[n].exists
    /\ tstored.kind = "Filename" => tdoc.url.host # ContextUrl.host

C20_Witness ==
    /\ tstored.kind = "Filename"
    /\ tstored.url = Url("other", <<"d">>, "a.json")
    /\ tdoc.signature /\ tdoc.sha256

(***************************************************************************)
(* Where a path leads.                                                     *)
(***************************************************************************)
\* the place a path names: an empty component changes nothing, ".." leaves the
\* directory reached so far
RECURSIVE Leads(_, _)
Leads(at, path) ==
    IF path = <<>> THEN at
    ELSE Leads(IF Head(path) = "" THEN at
               ELSE IF Head(path) = ".." THEN SubSeq(at, 1, Len(at) - 1)
               ELSE Append(at, Head(path)),
               Tail(path))

(***************************************************************************)
(* C21: for every document the store visitor writes, the target path lies  *)
(* inside the directory derived for the document's own distribution,       *)
(* whatever the document's URL, including one that is not located below    *)
(* the distribution's URL.                                                 *)
(***************************************************************************)
C21_InsideDistribution ==
    (ppc = "done" /\ pfile.some) =>
        IsPrefix(DistributionDirectory, Leads(<<>>, pfile.v))

(***************************************************************************)
(* C22: the channel between the directory-walk thread and load_index never *)
(* holds more than 8 undelivered entries; while it holds 8, the thread     *)
(* puts nothing into it: the only change to it is load_index taking an     *)
(* entry out (or dropping it).                                             *)
(***************************************************************************)
C22_ChannelBound ==
    /\ [](Len(channel) <= 8)
    /\ [][Len(channel) = 8 => Len(channel') < 8]_channel

\* the channel is full and the thread waits in blocking_send with the next entry
C22_Witness ==
    /\ Len(channel) = 8 /\ thread = "send" /\ lpc = "recv"
    /\ produced = 9

(***************************************************************************)
(* C30: load_index and its walk thread both terminate.  load_index         *)
(* receives the entries in the order the thread sent them and without a    *)
(* gap; when it returns Ok the thread has finished, the channel is empty   *)
(* and every entry of the walk was received; and when load_index stops on  *)
(* an entry error, the thread finds the channel closed and exits.          *)
(***************************************************************************)
C30_Terminates ==
    /\ <>[](lpc = "done" /\ thread \in {"none", "finished", "aborted"})
    /\ [](received \o channel = Positions(1, Len(received \o channel))
             \/ (lpc = "done" /\ channel = <<>>))
    /\ [](received = Positions(1, Len(received)))
    /\ [](lresult.kind = "Ok" =>
             /\ thread = "finished" /\ channel = <<>>
             /\ lresult.docs = Positions(1, Len(dentries)))
    /\ [](thread = "aborted" => lresult.kind = "Entry")

\* load_index returned the error of the first entry while the thread was blocked on
\* the full channel, and the thread exited
C30_Witness ==
    /\ thread = "aborted" /\ lresult.kind = "Entry"
    /\ received = <<>> /\ produced = Capacity + 1
    /\ produced < Len(dentries)

(***************************************************************************)
(* C23: in the sync command the since watermark is read before the walk    *)
(* starts, and the since file is written only after the walk has returned  *)
(* successfully; when the walk has failed the file was never written and   *)
(* still holds the watermark the run started from.                         *)
(***************************************************************************)
C23_SinceFile ==
    /\ []((ypc \in {"walk", "done"} \/ youtcomes # <<>>) => fpc # "since_new")
    /\ [][(fwrites' # fwrites \/ since_file' # since_file) =>
             (ypc = "done" /\ yresult = SyncOk)]_vars
    /\ []((ypc = "done" /\ yresult # SyncOk) => (fwrites = 0 /\ since_file = fsince))

\* a run whose walk failed at its second document has returned; the since file holds
\* a watermark
C23_Witness ==
    /\ fpc = "done" /\ fresult = "Err"
    /\ ypc = "done" /\ yresult # SyncOk /\ Len(youtcomes) = 2
    /\ since_file.some

(***************************************************************************)
(* C24: when load_index of the File source returns Ok, it returns exactly  *)
(* one document for each regular file of the distribution directory whose  *)
(* name ends in .json and that passes the since watermark, in the order of *)
(* the walk, and none for any other entry; no returned document has a      *)
(* digest URL or a signature URL; and over a directory without entries it  *)
(* returns the empty index.                                                *)
(***************************************************************************)
C24_RegularJsonFiles ==
    (isource = "file" /\ ipc = "done") =>
        /\ loaded.kind = "Ok" =>
              /\ [i \in 1..Len(loaded.docs) |-> loaded.docs[i].url]
                    = SelectSeq(Positions(1, Len(entries)),
                                LAMBDA p : /\ entries[p].kind = "file" /\ entries[p].json
                                           /\ since.some => entries[p].mtime >= since.t)
              /\ \A i \in 1..Len(loaded.docs) :
                    loaded.docs[i].digest = "none" /\ loaded.docs[i].signature = "none"
        /\ (entries = <<>> /\ loaded.kind # "Path") => loaded = LoadedOk(<<>>)

(***************************************************************************)
(* C25: since monotonicity.  Against an unchanged index, when load_index   *)
(* returned Ok with the watermark T1 and returns Ok with a watermark       *)
(* T2 >= T1, every document of the second result is a document of the      *)
(* first.                                                                  *)
(***************************************************************************)
C25_SinceMonotone ==
    (loaded.kind = "Ok" /\ loaded_again.kind = "Ok") =>
        Range(loaded_again.docs) \subseteq Range(loaded.docs)

\* the later watermark dropped one of the two documents the earlier one had kept
C25_Witness ==
    /\ loaded.kind = "Ok" /\ loaded_again.kind = "Ok"
    /\ since.t < since_again.t
    /\ Len(loaded.docs) = 2 /\ Len(loaded_again.docs) = 1

(***************************************************************************)
(* C26: load_advisory of the HTTP source fetches the signature from the    *)
(* discovered signature URL when there is one and from <document URL>.asc  *)
(* when there is none; the signature fetch is started for every document.  *)
(***************************************************************************)
C26_SignatureSource ==
    SubFetchesStarted =>
        /\ subs["signature"].st # "pending"
        /\ subs["signature"].url =
              IF discovered.signature.some THEN discovered.signature.v
              ELSE discovered.url \o <<".asc">>

\* a document without a signature URL was retrieved with the signature found at the
\* guessed URL
C26_Witness ==
    /\ apc = "done" /\ retrieved.kind = "Ok"
    /\ ~discovered.signature.some
    /\ subs["signature"].url = <<"doc", ".json", ".asc">>
    /\ subs["signature"].out.some

(***************************************************************************)
(* C27: in the sequential walk the bar of each distribution is started     *)
(* with the length of that distribution's index; it has one tick for each  *)
(* visit_advisory of that distribution that has returned Ok, the tick of   *)
(* the visit that returned last being the only one that may be pending (a  *)
(* visit_advisory that fails ends the walk); it is finished, with all its  *)
(* ticks, before the next distribution's load_index; and after a           *)
(* successful walk every distribution has a finished bar with as many      *)
(* ticks as its index has documents.                                       *)
(***************************************************************************)
C27_SequentialBars ==
    mode = "walk" =>
        /\ Len(bars) <= Len(distributions)
        /\ \A i \in 1..Len(bars) :
              LET c == distributions[i]
                  OfC(e) == IsVisit(e) /\ e.context = c
                  pending == IF i = Len(bars) /\ pc = "tick" THEN 1 ELSE 0
              IN  /\ bars[i].size = Len(IndexReturned(c))
                  /\ bars[i].ticks =
                        Len(SelectSeq(trace, OfC)) - Len(SelectSeq(failed, OfC)) - pending
                  /\ bars[i].finished <= 1
                  /\ bars[i].finished = 1 => bars[i].ticks = bars[i].size
                  /\ (i < Len(bars) \/ pc = "load_index") => bars[i].finished = 1
        /\ result = Ok =>
              /\ Len(bars) = Len(distributions)
              /\ \A i \in 1..Len(bars) :
                    bars[i].finished = 1 /\ bars[i].ticks = Len(IndexReturned(distributions[i]))

\* a successful sequential walk over two distributions with two and one documents
C27_Witness ==
    /\ mode = "walk" /\ result = Ok
    /\ Len(bars) = 2
    /\ bars[1].size = 2 /\ bars[1].ticks = 2
    /\ bars[2].size = 1 /\ bars[2].ticks = 1

(***************************************************************************)
(* The order of the distribution URLs.                                     *)
(***************************************************************************)
\* a comes before b: an earlier distribution of the metadata; or the same
\* distribution and an earlier feed, or a feed and the directory
ComesBefore(a, b) ==
    \/ a.dist < b.dist
    \/ /\ a.dist = b.dist
       /\ \/ a.kind = "Feed" /\ b.kind = "Directory"
          \/ a.kind = "Feed" /\ b.kind = "Feed" /\ a.n < b.n

\* the URLs the metadata holds: every feed and every directory URL
UrlsOf(meta) ==
    {c \in Contexts :
        /\ c.dist <= Len(meta)
        /\ IF c.kind = "Feed" THEN c.n <= meta[c.dist].feeds ELSE meta[c.dist].directory_url}

\* the distributions load_index was called with, in call order
Loads == [i \in 1..Len(SelectSeq(trace, IsLoadIndex)) |-> SelectSeq(trace, IsLoadIndex)[i].context]

(***************************************************************************)
(* C28: the walker expands the metadata's distributions in metadata order, *)
(* each into its feeds in feed order followed by its directory, so a       *)
(* distribution with both has both walked; load_index is called in this    *)
(* order; and walk_parallel visits the documents flattened in this         *)
(* distribution order and then index order.                                *)
(***************************************************************************)
C28_ExpansionOrder ==
    /\ \A i, j \in 1..Len(distributions) :
          i < j => ComesBefore(distributions[i], distributions[j])
    /\ (\E i \in 1..Len(trace) : IsVisitContext(trace[i]) /\ trace[i] \notin Range(failed)) =>
          Range(distributions) = {c \in UrlsOf(metadata) : ~Rejected(c)}
    /\ IsPrefix(Loads, distributions)
    /\ result = Ok => Loads = distributions
    /\ mode = "walk_parallel" =>
          /\ advisories = ExpectedOrder
          /\ pulled = Len(Visited)
          /\ IsPrefix(Visited, advisories)

\* a parallel walk over one distribution that has a feed and a directory, each with
\* documents
C28_Witness ==
    /\ mode = "walk_parallel" /\ result = Ok
    /\ distributions = <<Feed(1, 1), Directory(1)>>
    /\ Len(IndexReturned(Feed(1, 1))) = 1
    /\ Len(IndexReturned(Directory(1))) = 2
    /\ Len(Visited) = 3

(***************************************************************************)
(* C29: walk_parallel calls load_index for every distribution that was not *)
(* rejected, in order, before the first visit_advisory; when a load_index  *)
(* failed, walk_parallel has returned Error::Source for that distribution, *)
(* visit_context was called, and visit_advisory was not called at all.     *)
(***************************************************************************)
C29_CollectFirst ==
    mode = "walk_parallel" =>
        /\ IsPrefix(Loads, distributions)
        /\ (Visited # <<>> \/ pc = "fanout" \/ result = Ok) => Loads = distributions
        /\ \A i, j \in 1..Len(trace) :
              (IsLoadIndex(trace[i]) /\ IsVisit(trace[j])) => i < j
        /\ \A k \in 1..Len(failed) :
              IsLoadIndex(failed[k]) =>
                  /\ pc = "done" /\ result = ErrorSource(failed[k].context)
                  /\ Visited = <<>> /\ futures = <<>>
                  /\ \E i \in 1..Len(trace) : IsVisitContext(trace[i])

\* the second load_index failed after the first had returned documents
C29_Witness ==
    /\ mode = "walk_parallel" /\ result.kind = "Source"
    /\ Len(Loads) = 2
    /\ IndexReturned(Loads[1]) # <<>>
    /\ failed = <<Call("load_index", Loads[2], 0)>>

(***************************************************************************)
(* C31: when one of the three sub-fetches (signature, SHA-256, SHA-512)    *)
(* fails, load_advisory returns that error and the body is never           *)
(* requested; a sub-fetch that finds nothing (404) is not an error, and    *)
(* once all three are done the body is requested.                          *)
(***************************************************************************)
SubFailure == \E n \in SubNames : subs[n].st = "failed"
SubsSettled == \A n \in SubNames : subs[n].st = "done"

C31_SubFetchErrors ==
    /\ SubFailure =>
          /\ apc = "done"
          /\ retrieved = RetrievedErr("Fetcher")
          /\ sent = <<>> /\ data = <<>>
    /\ (BodyInProgress \/ sent # <<>> \/ retrieved.kind = "Ok") => ~SubFailure
    /\ SubsSettled =>
          /\ apc \in {"body_request", "body_stream", "done"}
          /\ apc = "body_request" => retrieved = NotRetrieved

\* an absent signature did not end load_advisory, the failing digest fetch did
C31_Witness ==
    /\ subs["signature"].st = "done" /\ ~subs["signature"].out.some
    /\ subs["sha256"].st = "failed"
    /\ retrieved = RetrievedErr("Fetcher")
    /\ apc = "done"

\* nothing was found by any sub-fetch, and the body was fetched all the same
C31_AbsentStillFetched ==
    /\ \A n \in SubNames : subs[n].st = "done" /\ ~subs[n].out.some
    /\ retrieved.kind = "Ok"
    /\ retrieved.data # <<>>

(***************************************************************************)
(* C32: walk_parallel with limit = 0 does not stall.  No bound applies:    *)
(* as long as a document has not been started its future can start,        *)
(* however many are in flight.  The walk returns, and when it returns Ok   *)
(* visit_advisory was called exactly once for every collected document.    *)
(***************************************************************************)
C32_NoLimit ==
    /\ []((pc = "fanout" /\ pulled < Len(advisories)) => ENABLED WalkParallel_Start)
    /\ [](result = Ok =>
             /\ Len(Visited) = Len(advisories)
             /\ \A a \in Range(advisories) : Occurrences(Visited, a) = 1)
    /\ <>(pc = "done")

\* every collected document is being visited at the same moment
C32_Witness ==
    /\ mode = "walk_parallel" /\ limit = 0
    /\ Len(advisories) = MaxTotal
    /\ Cardinality(Visiting(futures)) = MaxTotal

(***************************************************************************)
(* C33: in load_index of the HTTP source an entry one of whose URLs        *)
(* (document, and for a feed entry digest or signature) does not parse is  *)
(* never removed by the since filter, whatever its timestamp: once the     *)
(* index document was retrieved, load_index returns a URL error and no     *)
(* document exactly when the index holds such an entry, also when that     *)
(* entry is older than the watermark and every other entry is valid.       *)
(***************************************************************************)
Unparsable(kind, e) ==
    \/ e.file = "bad"
    \/ kind = "Feed" /\ (e.digest = "bad" \/ e.signature = "bad")

C33_UnparsableNotFiltered ==
    (isource = "http" /\ ipc = "done" /\ loaded.kind # "Fetcher") =>
        /\ (\E i \in 1..Len(entries) : Unparsable(context.kind, entries[i]))
              <=> loaded = LoadedErr("Url")
        /\ loaded.kind = "Url" => loaded.docs = <<>>

\* the only unparsable entry is older than the watermark, the other one is not
C33_Witness ==
    /\ isource = "http" /\ ipc = "done"
    /\ since.some
    /\ Len(entries) = 2
    /\ \E i, j \in 1..2 :
          /\ i # j
          /\ Unparsable(context.kind, entries[i]) /\ entries[i].timestamp < since.t
          /\ ~Unparsable(context.kind, entries[j]) /\ entries[j].timestamp >= since.t
    /\ loaded = LoadedErr("Url")

====
